---- MODULE Spec2Model ----
(***************************************************************************)
(* The job delivery / sync engine of the FlowState Obsidian plugin          *)
(* (src/src/main.ts, file helpers in src/src/config.ts, route fetch in     *)
(* src/src/logger.ts, storage download in src/unnamed/part_001).           *)
(*                                                                         *)
(* JavaScript runs the plugin on one cooperative thread: the code between  *)
(* two awaits is atomic.  Every action below is one such segment: it       *)
(* consumes the result of the await a call is suspended at, and runs the   *)
(* code up to the next await (or to the return of the entry point).        *)
(***************************************************************************)
EXTENDS Integers, Sequences, FiniteSets, TLC

\* ---- bounds of the model ------------------------------------------------
MaxJobs == 2
MaxCalls == 2
MaxFaults == 1
\* The clock of the model advances in steps of TickMs milliseconds.
TickMs == 1000

\* ---- program constants --------------------------------------------------
BatchLimit == 10
MaxWait == 30
FOCUS_SYNC_COOLDOWN_MS == 3000

NULL == "null"

\* The history clock sinceTrigger where no property reads it.
Unobserved == -1

\* params.job of a deep link that names no job.
NoJob == 0

JobIds == 1..MaxJobs
TaskIds == 1..MaxCalls
RouteIds == {"r1"}

\* Every job of the model belongs to the one route.
JobRoute(j) == "r1"

\* final_title of a job: the second job's title holds a character that
\* neither a file name nor a heading keeps.
JobTitle(j) == IF j = 2 THEN "Hello?" ELSE "Hello"

\* sanitize(title).trim() of buildSafeNoteFilename: the characters that
\* are illegal in a file name are removed.
sanitize(title) == IF title = "Hello?" THEN "Hello" ELSE title

\* baseTitle.replace(/[^\w\s-]/g, '').trim().replace(/\s+/g, ' ')
safeTitle(title) == IF title = "Hello?" THEN "Hello" ELSE title

\* ---- routes -------------------------------------------------------------
\* A Route row, reduced to the fields writeJobToVault reads.  A
\* destination_location is a sequence of path segments.
NoRow == [dest |-> <<"?">>, append |-> FALSE, incl |-> "absent"]

RouteRows ==
  { [dest |-> <<"Inbox">>, append |-> FALSE, incl |-> "false"],
    [dest |-> <<"Inbox">>, append |-> FALSE, incl |-> "true"],
    [dest |-> <<"Inbox", "log.md">>, append |-> TRUE, incl |-> "false"],
    [dest |-> <<"Inbox", "log">>, append |-> TRUE, incl |-> "true"],
    [dest |-> <<"Inbox">>, append |-> FALSE, incl |-> NULL],
    [dest |-> <<>>, append |-> FALSE, incl |-> "false"] }

\* needsRefresh that refreshes every time.
AlwaysRefresh(r) == TRUE

\* needsRefresh of writeJobToVault: no entry, blank destination, or
\* include_original_file null.
needsRefresh(r) ==
  \/ r = NoRow
  \/ r.dest = <<>>
  \/ r.incl = NULL

\* ---- paths --------------------------------------------------------------
\* File names of the model, split at the last "." as lastIndexOf does.
BaseOf(name) ==
  CASE name = "log.md" -> "log"
    [] name = "Hello.md" -> "Hello"
    [] name = "z.pdf" -> "z"
    [] OTHER -> name

ExtOf(name) ==
  CASE name = "log.md" -> ".md"
    [] name = "Hello.md" -> ".md"
    [] name = "z.pdf" -> ".pdf"
    [] OTHER -> ""

\* A file path: folder segments, base name, conflict index (0: none), ext.
NoPath == [dir |-> <<>>, base |-> "", n |-> 0, ext |-> ""]

Path(dir, name) == [dir |-> dir, base |-> BaseOf(name), n |-> 0, ext |-> ExtOf(name)]

\* `${base} ${i}${ext}`
Suffixed(p, i) == [p EXCEPT !.n = i]

Front(s) == SubSeq(s, 1, Len(s) - 1)
Last(s) == s[Len(s)]

\* All non-empty prefixes of a folder path: the segments ensureFolder walks.
Prefixes(dir) == { SubSeq(dir, 1, k) : k \in 1..Len(dir) }

\* ---- note content -------------------------------------------------------
\* A note is a sequence of tokens: SEP is "\n\n".
SEP == [t |-> "sep", v |-> ""]
Heading(title) == [t |-> "heading", v |-> title]
Body(j) == [t |-> "body", v |-> ToString(j)]
Embed(p) == [t |-> "embed", v |-> ToString(p)]

\* ---- state --------------------------------------------------------------
VARIABLES
  hasContent,   \* backend: job has formatted_content or transcribed_text
  routeRow,     \* backend: the row of a route in the routes table
  jobStatus,    \* backend: jobs.status
  jobDest,      \* backend: the path recorded in jobs.destination_url
  routes,       \* this.settings.routes, the in-memory route cache
  saved,        \* the routes of the persisted settings (saveData)
  folders,      \* vault: the folders that exist
  files,        \* vault: file path -> content
  isSyncing,    \* this.isSyncing
  tasks,        \* the calls made so far, each with its position and locals
  faults,       \* number of failures of the backend and the vault so far
  sinceCooldown, \* Date.now() - this.lastSyncCooldownStart, up to the cooldown
  sinceTrigger, \* history: time since a trigger other than focus last
                \* started a sync, up to the cooldown (or Unobserved)
  pollIntervalId, \* this.pollIntervalId: the interval timer, or NULL
  unloaded,     \* history: onunload has run
  noteWrites,   \* history: number of times a job's note content was written
  transitions   \* history: number of status changes of a job to delivered

vars == <<hasContent, routeRow, jobStatus, jobDest, routes, saved, folders,
          files, isSyncing, tasks, faults, sinceCooldown, sinceTrigger,
          pollIntervalId, unloaded, noteWrites,
          transitions>>

backend == <<hasContent, routeRow, jobStatus, jobDest, transitions>>
vault == <<folders, files, noteWrites>>
cache == <<routes, saved>>
plugin == <<pollIntervalId, unloaded>>

EntryKinds == {"timer", "focus", "command", "button", "deeplink"}
DirectKinds == {"syncOnce", "syncOnceWithDetails"}

IdleTask ==
  [ kind |-> "idle",        \* what made the call
    entry |-> "none",       \* the entry point the call goes through
    silent |-> FALSE,       \* the silent argument of syncNowAndGetPaths
    pc |-> "idle",          \* the await the call is suspended at
    held |-> FALSE,         \* the call set isSyncing and has not cleared it
    busyAtCall |-> FALSE,   \* isSyncing when the entry point was invoked
    waitCount |-> 0,        \* deep link: polls of the busy flag
    waited |-> "no",        \* deep link: how the wait loop was left
    notice |-> "none",      \* the Notice the call has shown
    refresh |-> FALSE,      \* writeJobToVault: refresh
    batch |-> <<>>,         \* items, the fetched jobs
    idx |-> 1,              \* position of the for loop in items
    ev |-> <<>>,            \* what the cycle has done so far, in order
    paths |-> <<>>,         \* writtenPaths / entries
    route |-> NoRow,        \* writeJobToVault: route
    att |-> NoPath,         \* writeJobToVault: attachmentPath
    existed |-> FALSE,      \* append mode: exists && TFile
    existing |-> <<>>,      \* append mode: content read from the file
    target |-> NoPath,      \* filePath / finalPath
    job |-> NoJob,          \* deep link: targetJobId
    opened |-> NoPath,      \* deep link: the file given to openLinkText
    outcome |-> "none",     \* how the call ended
    err |-> "none",         \* what the cycle threw
    returned |-> <<>> ]     \* the paths / entries given back to the caller

Ev(k, j, x) == [k |-> k, j |-> j, x |-> x]

\* A window.setInterval handle.
Interval == "interval"

\* onload has called this.startPoller(); onunload has not run.
Polling == pollIntervalId = Interval /\ unloaded = FALSE

\* The plugin has loaded its settings; no job has been delivered.  A cache
\* entry that needs no refresh is never compared with the backend's row, so
\* the two are taken equal then.
Loaded ==
  /\ hasContent \in [JobIds -> BOOLEAN]
  /\ routeRow \in [RouteIds -> RouteRows \cup {NoRow}]
  /\ jobStatus = [j \in JobIds |-> "transcribed"]
  /\ jobDest = [j \in JobIds |-> NoPath]
  /\ routes \in [RouteIds -> RouteRows \cup {NoRow}]
  /\ \A id \in RouteIds : needsRefresh(routes[id]) \/ routes[id] = routeRow[id]
  /\ saved = routes
  /\ folders = {}
  /\ files = [p \in {} |-> <<>>]
  /\ isSyncing = FALSE
  /\ tasks = [t \in TaskIds |-> IdleTask]
  /\ Polling
  /\ noteWrites = [j \in JobIds |-> 0]
  /\ transitions = [j \in JobIds |-> 0]

\* The plugin has been running for longer than the cooldown that onload
\* starts.
Init ==
  /\ Loaded
  /\ faults = 0
  /\ sinceCooldown = FOCUS_SYNC_COOLDOWN_MS
  /\ sinceTrigger = Unobserved

\* ---- the backend query --------------------------------------------------
RECURSIVE Ascending(_)
Ascending(S) ==
  IF S = {} THEN <<>>
  ELSE LET m == CHOOSE x \in S : \A y \in S : x <= y
       IN <<m>> \o Ascending(S \ {m})

Limit(s, n) == SubSeq(s, 1, IF Len(s) < n THEN Len(s) ELSE n)

RECURSIVE Descending(_)
Descending(S) ==
  IF S = {} THEN <<>>
  ELSE LET m == CHOOSE x \in S : \A y \in S : x >= y
       IN <<m>> \o Descending(S \ {m})

\* EligibleJobs with the newest job first.
EligibleJobsNewestFirst(status) ==
  Limit(Descending({j \in JobIds : status[j] = "transcribed"}), BatchLimit)

\* .eq("status", "transcribed") ... .order("created_at", ascending).limit(10)
\* Jobs are numbered in the order of their creation.
EligibleJobs(status) ==
  Limit(Ascending({j \in JobIds : status[j] = "transcribed"}), BatchLimit)

\* ---- the synchronous segments of a cycle --------------------------------
\* Guard without the test of the flag.
GuardOff(flag) == FALSE

\* if (this.isSyncing) return ...
Guard(flag) == flag

\* Abort that records the error and stays where it is.
AbortSwallowed(r, cause) == [r EXCEPT !.err = cause]

\* catch of syncNowAndGetPaths: new Notice(`FlowState sync error: ...`),
\* whatever silent is.  syncWithLogs returns the error and shows nothing.
CatchNotice(r) ==
  IF r.entry = "syncNowAndGetPaths" THEN "error" ELSE r.notice

\* if (!silent) new Notice(text), in syncNowAndGetPaths only.
NoticeUnlessSilent(r, text) ==
  IF r.entry = "syncNowAndGetPaths" /\ ~r.silent THEN text ELSE r.notice

\* A catch that returns the paths gathered before the error.
AbortReportsWritten(r, cause) ==
  [r EXCEPT !.pc = "done", !.outcome = "error", !.err = cause,
            !.returned = r.paths, !.notice = CatchNotice(r)]

\* throw out of syncOnce / syncOnceWithDetails.  An entry point catches it,
\* reports it and (finally) ends the call with no paths; a direct call
\* rejects.
Abort(r, cause) ==
  [r EXCEPT !.pc = "done", !.outcome = "error", !.err = cause,
            !.returned = <<>>, !.notice = CatchNotice(r)]

\* return writtenPaths / { entries, jobsFound }
Return(r) ==
  [r EXCEPT !.pc = "done", !.outcome = "ok", !.returned = r.paths]

\* ContentMissing without the test.
ContentNotChecked(j) == FALSE

\* if (!content) throw
ContentMissing(j) == ~hasContent[j]

\* Validate without the test.
ValidateSkipped(r) == [r EXCEPT !.pc = "ensureFolder"]

\* if (includeOriginal == null) throw; otherwise on to ensureFolder.
Validate(r) ==
  IF r.route.incl = NULL
  THEN Abort(r, "include_original_file")
  ELSE [r EXCEPT !.pc = "ensureFolder"]

\* A loop that catches the error of a job without content and goes on
\* with the next job.
RECURSIVE LoopHeadSkipsFailed(_, _)
LoopHeadSkipsFailed(r, rts) ==
  IF r.idx > Len(r.batch) THEN Return(r)
  ELSE LET j == r.batch[r.idx]
           fresh == [r EXCEPT !.refresh = needsRefresh(rts[JobRoute(j)]),
                              !.route = NoRow, !.att = NoPath,
                              !.existed = FALSE, !.existing = <<>>,
                              !.target = NoPath]
       IN IF ContentMissing(j)
          THEN LoopHeadSkipsFailed([r EXCEPT !.idx = @ + 1], rts)
          ELSE IF needsRefresh(rts[JobRoute(j)])
               THEN [fresh EXCEPT !.pc = "fetchRoute"]
               ELSE Validate([fresh EXCEPT !.route = rts[JobRoute(j)]])

\* The top of the for loop up to the first await of writeJobToVault.
LoopHead(r, rts) ==
  IF r.idx > Len(r.batch) THEN Return(r)
  ELSE LET j == r.batch[r.idx]
           fresh == [r EXCEPT !.refresh = needsRefresh(rts[JobRoute(j)]),
                              !.route = NoRow, !.att = NoPath,
                              !.existed = FALSE, !.existing = <<>>,
                              !.target = NoPath]
       IN IF ContentMissing(j) THEN Abort(fresh, "content")
          ELSE IF needsRefresh(rts[JobRoute(j)])
               THEN [fresh EXCEPT !.pc = "fetchRoute"]
               ELSE Validate([fresh EXCEPT !.route = rts[JobRoute(j)]])

\* Skip from inside the try block: the finally runs.
SkipThroughFinally(c) ==
  [c EXCEPT !.pc = "done", !.outcome = "skipped", !.held = TRUE]

\* if (this.isSyncing) return ..., ahead of the try block.
Skip(c) == [c EXCEPT !.pc = "done", !.outcome = "skipped"]

\* The prologue of syncWithLogs / syncNowAndGetPaths up to getSession.
Enter(r, flag, configured) ==
  LET c == [r EXCEPT !.busyAtCall = flag]
  IN IF Guard(flag) THEN Skip(c)
     ELSE IF ~configured
          THEN [c EXCEPT !.pc = "done", !.outcome = "notConfigured",
                         !.held = TRUE,
                         !.notice = NoticeUnlessSilent(c, "configure")]
          ELSE [c EXCEPT !.pc = "getSession", !.held = TRUE]

\* Finally with the cleanup on the normal return only.
FinallyOnReturnOnly(new, flag) ==
  IF new.held THEN new.pc # "done" \/ new.outcome = "error" ELSE flag

\* this.isSyncing = true ... finally { this.isSyncing = false }: the flag
\* after a segment that leaves the call's record as new.
Finally(new, flag) ==
  IF new.held THEN new.pc # "done" ELSE flag

\* result.entries of syncWithLogs: one entry per path, of the jobs of the
\* batch in their order.
Entries(r) ==
  [i \in 1..Len(r.returned) |-> [jobId |-> r.batch[i], path |-> r.returned[i]]]

\* while (pathToOpen.startsWith("/")) pathToOpen = pathToOpen.slice(1):
\* a leading "/" is an empty first segment.
RECURSIVE StripLeadingSlashes(_)
StripLeadingSlashes(p) ==
  IF p.dir # <<>> /\ Head(p.dir) = ""
  THEN StripLeadingSlashes([p EXCEPT !.dir = Tail(@)])
  ELSE p

\* PathToOpen that does not look for the target.
PathToOpenLast(entries, job) == entries[Len(entries)].path

\* entries.find(e => e.jobId === targetJobId)?.path, or the path of the
\* last entry.
PathToOpen(entries, job) ==
  LET found == {i \in DOMAIN entries : entries[i].jobId = job}
  IN IF job # NoJob /\ found # {}
     THEN entries[CHOOSE i \in found : \A k \in found : i <= k].path
     ELSE entries[Len(entries)].path

\* The deep link handler after syncWithLogs has returned: with entries it
\* opens one of them; without, and with a target, it reads the job's row.
AfterSync(r) ==
  IF r.kind # "deeplink" THEN r
  ELSE IF r.returned # <<>>
       THEN [r EXCEPT !.opened =
               StripLeadingSlashes(PathToOpen(Entries(r), r.job))]
       ELSE IF r.job # NoJob THEN [r EXCEPT !.pc = "lookup"]
            ELSE r

\* One segment of call t ends with the call's record being new.
Commit(t, new) ==
  /\ isSyncing' = Finally(new, isSyncing)
  /\ tasks' = [tasks EXCEPT ![t] =
                 IF new.pc = "done" THEN AfterSync([new EXCEPT !.held = FALSE])
                 ELSE new]

\* ---- the vault helpers (fs) ---------------------------------------------
\* buildSafeNoteFilename: the titles of the model are short, so the name
\* is the sanitized title plus ".md".
NotePath(dir, title) ==
  [dir |-> dir, base |-> sanitize(title), n |-> 0, ext |-> ".md"]

\* AppendPath with a conflict index.
AppendPathSuffixed(dest) ==
  [dir |-> Front(dest), base |-> BaseOf(Last(dest)), n |-> 1, ext |-> ".md"]

\* destinationLocation.endsWith(".md") ? destinationLocation
\*                                     : `${destinationLocation}.md`
AppendPath(dest) ==
  LET name == Last(dest)
  IN [dir |-> Front(dest),
      base |-> IF ExtOf(name) = ".md" THEN BaseOf(name) ELSE name,
      n |-> 0, ext |-> ".md"]

\* FirstFree that takes an index past every file.
FirstFreePastAll(p, i, present) == Cardinality(present) + 1

\* let i = 1; while (await adapter.exists(`${base} ${i}${ext}`)) i++;
RECURSIVE FirstFree(_, _, _)
FirstFree(p, i, present) ==
  IF Suffixed(p, i) \in present THEN FirstFree(p, i + 1, present) ELSE i

\* resolveConflictPath that keeps the desired path.
resolveNoConflict(p, present) == p

resolveConflictPath(p, present) ==
  IF p \notin present THEN p ELSE Suffixed(p, FirstFree(p, 1, present))

\* normalizePath(folderPath).split("/").filter(Boolean)
RECURSIVE Parts(_)
Parts(path) ==
  IF path = <<>> THEN <<>>
  ELSE IF Head(path) = "" THEN Parts(Tail(path))
       ELSE <<Head(path)>> \o Parts(Tail(path))

\* ensureFolder that creates the folder itself only.
ensureFolderLeafOnly(path, fo) ==
  IF Parts(path) = <<>> THEN fo ELSE fo \cup {Parts(path)}

\* for (const p of parts) { current = ...; if (!exists(current))
\* createFolder(current) }, from the k-th part on.
RECURSIVE ensureFolderFrom(_, _, _)
ensureFolderFrom(parts, k, fo) ==
  IF k > Len(parts) THEN fo
  ELSE LET current == SubSeq(parts, 1, k)
       IN ensureFolderFrom(parts, k + 1,
                           IF current \in fo THEN fo ELSE fo \cup {current})

\* ensureFolder: the folders of the vault after the call.
ensureFolder(path, fo) == ensureFolderFrom(Parts(path), 1, fo)

\* atomicWrite: modify the file when it exists, else create it (and the
\* folders above it).
atomicWriteFiles(fs, p, content) ==
  IF p \in DOMAIN fs THEN [fs EXCEPT ![p] = content] ELSE fs @@ (p :> content)

atomicWriteFolders(fs, fo, p) ==
  IF p \in DOMAIN fs THEN fo ELSE fo \cup Prefixes(p.dir)

\* writeBinaryToAttachments without a configured attachment folder and
\* without options: "Flow State/_attachments".
AttachmentFolder == <<"Flow State", "_attachments">>

\* app.vault.getConfig("attachmentFolderPath"): Obsidian's attachment
\* folder is not configured.
attachmentFolderPath == <<>>

\* writeBinaryToAttachments, the folder: the user's folder (relative to
\* baseFolder when it starts with "./"), else baseFolder, else the default.
writeBinaryFolder(userFolder, baseFolder) ==
  IF userFolder # <<>>
  THEN IF userFolder = <<".">>
       THEN (IF baseFolder # <<>> THEN baseFolder ELSE <<".">>)
       ELSE IF Head(userFolder) = "."
            THEN baseFolder \o Tail(userFolder)
            ELSE userFolder
  ELSE IF baseFolder # <<>> THEN baseFolder ELSE AttachmentFolder

\* writeBinaryTarget that takes the desired name as it is.
writeBinaryTargetDesired(folder, filename, present) == Path(folder, filename)

\* let i = 1; while (await adapter.exists(makePath(`${base} ${i}${ext}`))) i++;
RECURSIVE NextFreeName(_, _, _)
NextFreeName(p, i, present) ==
  IF Suffixed(p, i) \in present THEN NextFreeName(p, i + 1, present) ELSE i

\* writeBinaryToAttachments, targetPath: the desired name, or the first
\* "<base> i<ext>" that does not exist.
writeBinaryTarget(folder, filename, present) ==
  LET targetPath == Path(folder, filename)
  IN IF targetPath \in present
     THEN Suffixed(targetPath, NextFreeName(targetPath, 1, present))
     ELSE targetPath

\* destFolder of writeJobToVault, the baseFolder argument of
\* maybeDownloadOriginal.
destFolder(route) ==
  IF route.append /\ ExtOf(Last(route.dest)) = ".md"
  THEN Front(route.dest) ELSE route.dest

\* OptionsBaseFolder that hands baseFolder on.
OptionsBaseFolderPassed(baseFolder) == baseFolder

\* maybeDownloadOriginal calls writeBinaryToAttachments(this.app, filename,
\* data) without options: options?.baseFolder is undefined.
OptionsBaseFolder(baseFolder) == <<>>

\* metadata.original_object.name of a job that has an original.
OriginalObjectName == <<"x", "y", "z.pdf">>

\* name.split("/").pop() || "original"
FileNameOf(name) == IF name = <<>> THEN "original" ELSE Last(name)

\* The folder writeJobToVault ensures: the parent of the file in append
\* mode, the destination folder otherwise.
ContainerOf(route) ==
  IF route.append THEN Front(route.dest) ELSE route.dest

\* attachmentSection
AttachmentSection(att) ==
  IF att = NoPath THEN <<>> ELSE <<SEP, Embed(att), SEP>>

\* content composed by writeJobToVault
Compose(route, j, att) ==
  IF route.append
  THEN <<Heading(safeTitle(JobTitle(j))), SEP, Body(j)>>
         \o AttachmentSection(att)
  ELSE <<Body(j)>> \o AttachmentSection(att)

\* Combined without the separator.
CombinedNoSeparator(existing, content) == existing \o content

\* Combined that keeps the new content only.
CombinedOverwrites(existing, content) == content

\* existing ? `${existing}\n\n${content}` : content
Combined(existing, content) ==
  IF existing # <<>> THEN existing \o <<SEP>> \o content ELSE content

\* ---- the environment ---------------------------------------------------
\* An awaited call of the backend or of the vault succeeds, or fails while
\* the model's budget of failures lasts.
Outcomes == IF faults < MaxFaults THEN {TRUE, FALSE} ELSE {TRUE}

Fault(ok) == faults' = IF ok THEN faults ELSE faults + 1

\* A call that has returned is settled before anything else happens: no
\* other call reads its record.
Settled == \A u \in TaskIds : tasks[u].pc # "done"

\* ---- the triggers -------------------------------------------------------
\* A new call takes the first free record.
CanCall(t) ==
  /\ Settled
  /\ tasks[t].pc = "idle"
  /\ \A u \in TaskIds : u < t => tasks[u].pc # "idle"

Called(t, kind, entry, silent) ==
  [tasks[t] EXCEPT !.kind = kind, !.entry = entry, !.silent = silent]

\* history: a call of a trigger other than focus that is past the guard
\* and the configuration test has started a sync.
TriggerClock(new) ==
  IF sinceTrigger # Unobserved /\ new.kind # "focus" /\ new.pc = "getSession"
  THEN 0 ELSE sinceTrigger

\* Date.now() - start after TickMs more, up to the cooldown.
Later(elapsed) ==
  IF elapsed + TickMs < FOCUS_SYNC_COOLDOWN_MS
  THEN elapsed + TickMs ELSE FOCUS_SYNC_COOLDOWN_MS

\* RestartCooldown by every trigger.
RestartCooldownAlways(kind, elapsed) == 0

\* this.lastSyncCooldownStart = Date.now() is in the deep link handler for
\* cmd=sync (and in onload) only: the elapsed time after a trigger.
RestartCooldown(kind, elapsed) == IF kind = "deeplink" THEN 0 ELSE elapsed

\* A call of syncNowAndGetPaths / syncWithLogs; hasUrl && hasKey is an
\* input of the call.
Invoke(t, kind, entry, silent) ==
  /\ CanCall(t)
  /\ \E configured \in BOOLEAN :
       LET new == Enter(Called(t, kind, entry, silent), isSyncing, configured)
       IN Commit(t, new) /\ sinceTrigger' = TriggerClock(new)
  /\ sinceCooldown' = RestartCooldown(kind, sinceCooldown)
  /\ UNCHANGED <<backend, vault, cache, faults, plugin>>

\* setInterval(() => this.syncNow(true)): the interval fires while it is
\* scheduled.
Timer(t) ==
  /\ pollIntervalId # NULL
  /\ Invoke(t, "timer", "syncNowAndGetPaths", TRUE)

\* What the plugin registered with Obsidian (the focus handler, the
\* command, the settings tab, the protocol handler) is removed when the
\* plugin is unloaded.
Registered == ~unloaded

\* InCooldown with the test removed.
NoCooldown(elapsed) == FALSE

\* timeSinceCooldown < FOCUS_SYNC_COOLDOWN_MS
InCooldown(elapsed) == elapsed < FOCUS_SYNC_COOLDOWN_MS

\* window focus: within the cooldown the handler returns, past it
\* this.syncNow(true).
Focus(t) ==
  /\ Registered
  /\ IF InCooldown(sinceCooldown)
     THEN /\ CanCall(t)
          /\ Commit(t, [Called(t, "focus", "none", TRUE) EXCEPT
                          !.pc = "done", !.outcome = "cooldown"])
          /\ UNCHANGED <<backend, vault, cache, faults, sinceCooldown,
                         sinceTrigger, plugin>>
     ELSE Invoke(t, "focus", "syncNowAndGetPaths", TRUE)

\* Time passes: Date.now() grows by TickMs.  Past the cooldown the
\* difference is no longer told apart.
Tick ==
  /\ Settled
  /\ sinceCooldown < FOCUS_SYNC_COOLDOWN_MS
       \/ (sinceTrigger # Unobserved /\ sinceTrigger < FOCUS_SYNC_COOLDOWN_MS)
  /\ sinceCooldown' = Later(sinceCooldown)
  /\ sinceTrigger' = IF sinceTrigger = Unobserved THEN Unobserved
                     ELSE Later(sinceTrigger)
  /\ UNCHANGED <<backend, vault, cache, faults, isSyncing, tasks, plugin>>

\* the "Sync Now" command and the "Sync" button: this.syncNow()
Command(t) ==
  /\ Registered
  /\ Invoke(t, "command", "syncNowAndGetPaths", FALSE)

\* the "Sync Now" button of the settings tab: this.plugin.syncWithLogs()
SettingsButton(t) ==
  /\ Registered
  /\ Invoke(t, "button", "syncWithLogs", FALSE)

\* A sync of the handler that does not look at the flag.
syncWithLogsForced(r, flag, configured) == Enter(r, FALSE, configured)

\* const result = await this.syncWithLogs(), whatever the wait came to.
syncWithLogs(r, flag, configured) == Enter(r, flag, configured)

\* The protocol handler for cmd=sync: restart the cooldown, wait while a
\* sync is in progress, then call syncWithLogs.
DeepLinkTo(t, job) ==
  /\ Registered
  /\ CanCall(t)
  /\ LET r == [Called(t, "deeplink", "syncWithLogs", FALSE) EXCEPT !.job = job]
     IN IF isSyncing
        THEN Commit(t, [r EXCEPT !.pc = "wait"]) /\ UNCHANGED sinceTrigger
        ELSE \E configured \in BOOLEAN :
               LET new == syncWithLogs(r, isSyncing, configured)
               IN Commit(t, new) /\ sinceTrigger' = TriggerClock(new)
  /\ sinceCooldown' = RestartCooldown("deeplink", sinceCooldown)
  /\ UNCHANGED <<backend, vault, cache, faults, plugin>>

\* obsidian://flow-state?cmd=sync
DeepLink(t) == DeepLinkTo(t, NoJob)

\* obsidian://flow-state?cmd=sync&job=<id>
DeepLinkJob(t) == \E job \in JobIds : DeepLinkTo(t, job)

\* DeliveredFile that opens nothing.
DeliveredFileNone(status, dest) == NoPath

\* job?.status === "delivered" && job?.destination_url: the file named by
\* the recorded destination, if any.
DeliveredFile(status, dest) ==
  IF status = "delivered" /\ dest # NoPath
  THEN StripLeadingSlashes(dest) ELSE NoPath

\* The read of the target job's row returns: the handler opens the file
\* the row records; a failed read is logged.
Lookup(t) ==
  /\ Settled
  /\ tasks[t].pc = "lookup"
  /\ \E ok \in Outcomes :
       /\ Fault(ok)
       /\ tasks' = [tasks EXCEPT ![t] =
                      [@ EXCEPT !.pc = "done",
                                !.opened = IF ok
                                           THEN DeliveredFile(
                                                  jobStatus[tasks[t].job],
                                                  jobDest[tasks[t].job])
                                           ELSE NoPath]]
  /\ UNCHANGED <<backend, vault, cache, isSyncing, sinceCooldown, sinceTrigger, plugin>>

\* KeepWaiting without the bound on the polls.
KeepWaitingUnbounded(flag, n) == flag

\* this.isSyncing && waitCount < 30
KeepWaiting(flag, n) == flag /\ n < MaxWait

\* One turn of while (this.isSyncing && waitCount < 30) { sleep; waitCount++ }
\* waitCount is not read after the loop.
DeepLinkPoll(t) ==
  /\ Settled
  /\ tasks[t].pc = "wait"
  /\ LET r == [tasks[t] EXCEPT !.waitCount = @ + 1]
     IN IF KeepWaiting(isSyncing, r.waitCount)
        THEN Commit(t, r) /\ UNCHANGED sinceTrigger
        ELSE \E configured \in BOOLEAN :
               LET new == syncWithLogs(
                            [r EXCEPT !.waitCount = 0,
                                      !.waited = IF isSyncing THEN "timeout"
                                                 ELSE "freed"],
                            isSyncing, configured)
               IN Commit(t, new) /\ sinceTrigger' = TriggerClock(new)
  /\ UNCHANGED <<backend, vault, cache, faults, sinceCooldown, plugin>>

\* A caller that holds the plugin object calls syncOnce() or
\* syncOnceWithDetails() itself, as test/syncOnce.spec.ts does.
DirectCall(t) ==
  /\ CanCall(t)
  /\ \E kind \in DirectKinds :
       Commit(t, [Called(t, kind, "direct", FALSE) EXCEPT !.pc = "fetch"])
  /\ UNCHANGED <<backend, vault, cache, faults, sinceCooldown, sinceTrigger, plugin>>

\* The caller has the result; the record of the call is free again.
Settle(t) ==
  /\ tasks[t].pc = "done"
  /\ tasks' = [tasks EXCEPT ![t] = IdleTask]
  /\ UNCHANGED <<backend, vault, cache, faults, isSyncing, sinceCooldown, sinceTrigger, plugin>>

\* ---- the cycle ----------------------------------------------------------
\* await supabase.auth.getSession()
GetSession(t) ==
  /\ Settled
  /\ tasks[t].pc = "getSession"
  /\ \E session \in BOOLEAN :
       Commit(t, IF session
                 THEN [tasks[t] EXCEPT !.pc = "fetch"]
                 ELSE [tasks[t] EXCEPT !.pc = "done", !.outcome = "noSession",
                         !.notice = NoticeUnlessSilent(tasks[t], "noSession")])
  /\ UNCHANGED <<backend, vault, cache, faults, sinceCooldown, sinceTrigger, plugin>>

\* The batch query of syncOnce / syncOnceWithDetails returns.
Fetch(t) ==
  /\ Settled
  /\ tasks[t].pc = "fetch"
  /\ LET r == [tasks[t] EXCEPT !.ev = Append(@, Ev("fetch", 0, ""))]
     IN \E ok \in Outcomes :
          /\ Fault(ok)
          /\ Commit(t, IF ok
                       THEN LoopHead([r EXCEPT !.batch = EligibleJobs(jobStatus),
                                               !.idx = 1], routes)
                       ELSE Abort(r, "fetch"))
  /\ UNCHANGED <<backend, vault, cache, sinceCooldown, sinceTrigger, plugin>>

\* CacheRoute that drops the row.
CacheRouteDropped(rts, id, row) == rts

\* this.settings.routes[routeId] = route
CacheRoute(rts, id, row) == [rts EXCEPT ![id] = row]

\* RouteMissing that takes a missing row for a route.
RouteMissingOnError(ok, row) == ~ok

\* fetchRouteById throws (the query failed, or .single() found no row), or
\* if (!row) throw new Error(`Route ${routeId} not found`)
RouteMissing(ok, row) == ~ok \/ row = NoRow

\* fetchRouteById returns the row, or fails: the query failed, or
\* .single() found no row.  The row is put into the cache before
\* saveSettings is awaited.
FetchRoute(t) ==
  /\ Settled
  /\ tasks[t].pc = "fetchRoute"
  /\ LET j == tasks[t].batch[tasks[t].idx]
         row == routeRow[JobRoute(j)]
         r == [tasks[t] EXCEPT !.ev = Append(@, Ev("fetchRoute", j, ""))]
     IN \E ok \in Outcomes :
          /\ Fault(ok)
          /\ IF ~RouteMissing(ok, row)
             THEN /\ Commit(t, [r EXCEPT !.route = row, !.pc = "saveSettings"])
                  /\ routes' = CacheRoute(routes, JobRoute(j), row)
             ELSE /\ Commit(t, Abort(r, "route"))
                  /\ UNCHANGED routes
  /\ UNCHANGED <<backend, vault, saved, sinceCooldown, sinceTrigger, plugin>>

\* onunload: if (this.pollIntervalId) { clearInterval; = null }
onunload(id) == NULL

\* The plugin is disabled or Obsidian closes it.
Unload ==
  /\ ~unloaded
  /\ pollIntervalId' = onunload(pollIntervalId)
  /\ unloaded' = TRUE
  /\ UNCHANGED <<backend, vault, cache, faults, isSyncing, tasks,
                 sinceCooldown, sinceTrigger>>

\* startPoller: clear the interval there is, schedule a new one.
startPoller(id) == Interval

\* saveSettings: saveData, then this.startPoller(); then on to the
\* validation of the route.
SaveSettings(t) ==
  /\ Settled
  /\ tasks[t].pc = "saveSettings"
  /\ LET j == tasks[t].batch[tasks[t].idx]
         r == [tasks[t] EXCEPT !.ev = Append(@, Ev("saveSettings", j, ""))]
     IN \E ok \in Outcomes :
          /\ Fault(ok)
          /\ IF ok
             THEN /\ saved' = routes
                  /\ pollIntervalId' = startPoller(pollIntervalId)
                  /\ Commit(t, Validate(r))
             ELSE /\ UNCHANGED <<saved, pollIntervalId>>
                  /\ Commit(t, Abort(r, "saveData"))
  /\ UNCHANGED <<backend, vault, routes, sinceCooldown, sinceTrigger, unloaded>>

\* ensureFolder of the destination container; it calls the vault only for
\* a folder that is missing.
EnsureFolder(t) ==
  /\ Settled
  /\ tasks[t].pc = "ensureFolder"
  /\ LET j == tasks[t].batch[tasks[t].idx]
         dir == ContainerOf(tasks[t].route)
         r == [tasks[t] EXCEPT !.ev = Append(@, Ev("ensureFolder", j, ""))]
     IN \E ok \in IF Prefixes(dir) \subseteq folders THEN {TRUE} ELSE Outcomes :
          /\ Fault(ok)
          /\ IF ok
             THEN /\ folders' = ensureFolder(dir, folders)
                  /\ Commit(t, [r EXCEPT !.pc =
                       IF r.route.incl = "true" THEN "download" ELSE "resolve"])
             ELSE /\ UNCHANGED folders
                  /\ Commit(t, Abort(r, "ensureFolder"))
  /\ UNCHANGED <<backend, cache, files, noteWrites, sinceCooldown, sinceTrigger, plugin>>

\* AttachmentFailed with the error thrown on.
AttachmentFailedThrows(r) == Abort(r, "attachment")

\* maybeDownloadOriginal caught its error (or writeJobToVault did): the
\* delivery goes on without an attachment.
AttachmentFailed(r) == [r EXCEPT !.att = NoPath, !.pc = "resolve"]

\* maybeDownloadOriginal returns: the job names no original (null), the
\* download or the save failed (null), or the original was saved by
\* writeBinaryToAttachments under a name that is free.
Download(t) ==
  /\ Settled
  /\ tasks[t].pc = "download"
  /\ LET j == tasks[t].batch[tasks[t].idx]
         folder == writeBinaryFolder(attachmentFolderPath,
                     OptionsBaseFolder(destFolder(tasks[t].route)))
         p == writeBinaryTarget(folder, FileNameOf(OriginalObjectName),
                                DOMAIN files)
     IN \E ok \in Outcomes, original \in BOOLEAN :
          LET res == IF ~ok THEN "failed"
                     ELSE IF original THEN "saved" ELSE "none"
              r == [tasks[t] EXCEPT !.ev = Append(@, Ev("download", j, res))]
          IN /\ Fault(ok)
             /\ CASE res = "none" ->
                       /\ Commit(t, [r EXCEPT !.att = NoPath, !.pc = "resolve"])
                       /\ UNCHANGED <<folders, files>>
                  [] res = "failed" ->
                       /\ Commit(t, AttachmentFailed(r))
                       /\ UNCHANGED <<folders, files>>
                  [] res = "saved" ->
                       /\ Commit(t, [r EXCEPT !.att = p, !.pc = "resolve"])
                       /\ folders' = folders \cup Prefixes(folder)
                       /\ files' = [q \in DOMAIN files \cup {p} |->
                                     IF q = p
                                     THEN <<[t |-> "bytes", v |-> ToString(j)]>>
                                     ELSE files[q]]
  /\ UNCHANGED <<backend, cache, noteWrites, sinceCooldown, sinceTrigger, plugin>>

\* The reads before the write: exists and read of the destination file
\* (append mode), resolveConflictPath (new-file mode).
Resolve(t) ==
  /\ Settled
  /\ tasks[t].pc = "resolve"
  /\ LET j == tasks[t].batch[tasks[t].idx]
         route == tasks[t].route
         filePath == AppendPath(route.dest)
         relPath == NotePath(route.dest, JobTitle(j))
     IN Commit(t, IF route.append
                  THEN [tasks[t] EXCEPT !.target = filePath,
                          !.existed = filePath \in DOMAIN files,
                          !.existing = IF filePath \in DOMAIN files
                                       THEN files[filePath] ELSE <<>>,
                          !.pc = "write"]
                  ELSE [tasks[t] EXCEPT
                          !.target = resolveConflictPath(relPath, DOMAIN files),
                          !.pc = "write"])
  /\ UNCHANGED <<backend, vault, cache, faults, sinceCooldown, sinceTrigger, plugin>>

\* WriteFailed with the error caught and the loop going on.
WriteFailedIgnored(r) == [r EXCEPT !.pc = "ack"]

\* writeJobToVault throws: syncOnce does not catch it.
WriteFailed(r) == Abort(r, "write")

\* The write of the note: vault.modify of the combined content (append
\* mode, file present), atomicWrite otherwise.
Write(t) ==
  /\ Settled
  /\ tasks[t].pc = "write"
  /\ LET j == tasks[t].batch[tasks[t].idx]
         me == tasks[t]
         content == Compose(me.route, j, me.att)
     IN \E ok \in Outcomes :
          /\ Fault(ok)
          /\ IF ok
             THEN /\ files' = IF me.route.append /\ me.existed
                              THEN [files EXCEPT ![me.target] =
                                      Combined(me.existing, content)]
                              ELSE atomicWriteFiles(files, me.target, content)
                  /\ folders' = IF me.route.append /\ me.existed
                                THEN folders
                                ELSE atomicWriteFolders(files, folders, me.target)
                  /\ noteWrites' = [noteWrites EXCEPT ![j] = @ + 1]
                  /\ Commit(t, [me EXCEPT !.pc = "ack", !.ev = Append(@,
                       Ev("write", j, IF me.att = NoPath THEN "plain" ELSE "embed"))])
             ELSE /\ UNCHANGED vault
                  /\ Commit(t, WriteFailed([me EXCEPT !.ev =
                                        Append(@, Ev("writeFailed", j, ""))]))
  /\ UNCHANGED <<backend, cache, sinceCooldown, sinceTrigger, plugin>>

\* Push that keeps the newest path only.
PushNewest(paths, writtenPath) == <<writtenPath>>

\* writtenPaths.push(writtenPath) / entries.push({ path: writtenPath, ... })
Push(paths, writtenPath) == Append(paths, writtenPath)

\* AckFailed with the update issued again by the same cycle.
AckFailedRetried(r) == [r EXCEPT !.pc = "ack"]

\* if (uErr) throw uErr
AckFailed(r) == Abort(r, "ack")

\* UpdateWhere that ignores the filter on the status.
UpdateUnconditional(hit, old, new) == new

\* .update({...}).eq("id", it.id).eq("status", "transcribed"): the value of
\* a column of the row after the update.
UpdateWhere(hit, old, new) == IF hit THEN new ELSE old

\* The conditional update returns: .eq("id", it.id).eq("status",
\* "transcribed") changes the row only if it is still transcribed.
Ack(t) ==
  /\ Settled
  /\ tasks[t].pc = "ack"
  /\ LET j == tasks[t].batch[tasks[t].idx]
         me == tasks[t]
         hit == jobStatus[j] = "transcribed"
     IN \E ok \in Outcomes :
          /\ Fault(ok)
          /\ IF ok
             THEN /\ jobStatus' = [jobStatus EXCEPT ![j] =
                                   UpdateWhere(hit, @, "delivered")]
                  /\ jobDest' = [jobDest EXCEPT ![j] =
                                 UpdateWhere(hit, @, me.target)]
                  /\ transitions' = IF hit
                                    THEN [transitions EXCEPT ![j] = @ + 1]
                                    ELSE transitions
                  /\ Commit(t, LoopHead([me EXCEPT
                       !.ev = Append(@, Ev("ack", j,
                                IF hit THEN "changed" ELSE "noop")),
                       !.paths = Push(@, me.target),
                       !.idx = @ + 1], routes))
             ELSE /\ UNCHANGED <<jobStatus, jobDest, transitions>>
                  /\ Commit(t, AckFailed([me EXCEPT !.ev =
                                        Append(@, Ev("ackFailed", j, ""))]))
  /\ UNCHANGED <<hasContent, routeRow, vault, cache, sinceCooldown, sinceTrigger, plugin>>

\* ---- the specifications -------------------------------------------------
\* A step of syncOnce / syncOnceWithDetails and of writeJobToVault.
CycleStep(t) ==
  \/ Fetch(t)
  \/ FetchRoute(t)
  \/ SaveSettings(t)
  \/ EnsureFolder(t)
  \/ Download(t)
  \/ Resolve(t)
  \/ Write(t)
  \/ Ack(t)
  \/ Settle(t)

Step(t) == GetSession(t) \/ CycleStep(t)

Trigger(t) ==
  \/ Timer(t)
  \/ Focus(t)
  \/ Command(t)
  \/ SettingsButton(t)

\* The plugin with its timer, focus, command and button triggers.
Next == \E t \in TaskIds : Trigger(t) \/ Step(t)

Spec == Init /\ [][Next]_vars

\* The plugin from its start (onload: this.lastSyncCooldownStart =
\* Date.now()), with the deep link and the clock as well.  It starts with
\* the cache entry of a route that writes new files and includes the
\* original, or with no entry for it.
InitLink ==
  /\ Loaded
  /\ faults = 0
  /\ sinceCooldown = 0
  /\ sinceTrigger = Unobserved
  /\ \A id \in RouteIds :
       /\ routeRow[id] = [dest |-> <<"Inbox">>, append |-> FALSE, incl |-> "true"]
       /\ routes[id] \in {NoRow, routeRow[id]}

NextLink ==
  \/ \E t \in TaskIds : Trigger(t) \/ DeepLink(t) \/ DeepLinkPoll(t) \/ Step(t)
  \/ Tick

SpecLink == InitLink /\ [][NextLink]_vars

\* The plugin of Spec, which may be unloaded at any moment.
NextUnload ==
  \/ \E t \in TaskIds : Trigger(t) \/ Step(t)
  \/ Unload

SpecUnload == Init /\ [][NextUnload]_vars

\* The cycle methods called directly, past the entry points, for jobs
\* with content and the route of InitLink, with a backend and a vault
\* that do not fail.
InitDirect ==
  /\ Loaded
  /\ faults = MaxFaults
  /\ sinceCooldown = 0
  /\ sinceTrigger = Unobserved
  /\ \A j \in JobIds : hasContent[j]
  /\ \A id \in RouteIds :
       /\ routeRow[id] = [dest |-> <<"Inbox">>, append |-> FALSE, incl |-> "true"]
       /\ routes[id] \in {NoRow, routeRow[id]}

NextDirect == \E t \in TaskIds : DirectCall(t) \/ CycleStep(t)

SpecDirect == InitDirect /\ [][NextDirect]_vars

\* The plugin in a vault that already holds notes of the user: notes with
\* the names the jobs' titles give, and the file of the append routes,
\* empty or not.
UserNote == <<[t |-> "user", v |-> "existing"]>>

UserPaths ==
  { Suffixed(NotePath(<<"Inbox">>, "Hello"), i) : i \in 0..2 }
    \cup { AppendPath(<<"Inbox", "log.md">>) }

VaultRows ==
  { [dest |-> <<"Inbox">>, append |-> FALSE, incl |-> "true"],
    [dest |-> <<"Inbox", "log.md">>, append |-> TRUE, incl |-> "false"],
    [dest |-> <<"Inbox", "log">>, append |-> TRUE, incl |-> "true"] }

InitVault ==
  /\ hasContent = [j \in JobIds |-> TRUE]
  /\ routeRow \in [RouteIds -> VaultRows]
  /\ jobStatus = [j \in JobIds |-> "transcribed"]
  /\ jobDest = [j \in JobIds |-> NoPath]
  /\ \E fresh \in BOOLEAN :
       routes = [id \in RouteIds |-> IF fresh THEN routeRow[id] ELSE NoRow]
  /\ saved = routes
  /\ \E S \in SUBSET UserPaths, blank \in BOOLEAN :
       /\ files = [p \in S |-> IF blank /\ p.base = "log" THEN <<>>
                                ELSE UserNote]
       /\ folders = IF S = {} THEN {} ELSE {<<"Inbox">>}
  /\ isSyncing = FALSE
  /\ tasks = [t \in TaskIds |-> IdleTask]
  /\ faults = 0
  /\ sinceCooldown = FOCUS_SYNC_COOLDOWN_MS
  /\ sinceTrigger = Unobserved
  /\ Polling
  /\ noteWrites = [j \in JobIds |-> 0]
  /\ transitions = [j \in JobIds |-> 0]

NextVault == \E t \in TaskIds : Timer(t) \/ Step(t)

SpecVault == InitVault /\ [][NextVault]_vars

\* The plugin of SpecLink with its timer and with deep links that name a
\* job or none.
NextOpen ==
  \E t \in TaskIds :
    \/ Timer(t)
    \/ DeepLink(t)
    \/ DeepLinkJob(t)
    \/ DeepLinkPoll(t)
    \/ Lookup(t)
    \/ Step(t)

SpecOpen == InitLink /\ [][NextOpen]_vars

\* ---- the two cycle methods side by side ----------------------------------
\* syncOnce and syncOnceWithDetails, each translated from its own text, as
\* programs that call the backend and this.writeJobToVault and go on with
\* what the call answers.  A run is the method's locals, where it is
\* suspended, and the calls it has made.
PairStart(kind) ==
  [ kind |-> kind, pc |-> "fetch", items |-> <<>>, idx |-> 1, calls |-> <<>>,
    writtenPath |-> NoPath, out |-> <<>>, jobsFound |-> 0,
    err |-> "none", result |-> <<>> ]

Throw(r, cause) == [r EXCEPT !.pc = "done", !.err = cause]

\* The answers an awaited call can give: the query its rows or an error,
\* writeJobToVault a path or an error, the update an error or none.
PairPaths == { Suffixed(NotePath(<<"Inbox">>, "Hello"), i) : i \in 0..2 }

Answers(pc) ==
  CASE pc = "fetch" ->
         {[ok |-> FALSE, items |-> <<>>, path |-> NoPath],
          [ok |-> TRUE, items |-> EligibleJobs(jobStatus), path |-> NoPath]}
    [] pc = "write" ->
         {[ok |-> FALSE, items |-> <<>>, path |-> NoPath]} \cup
         {[ok |-> TRUE, items |-> <<>>, path |-> p] : p \in PairPaths}
    [] OTHER ->
         {[ok |-> o, items |-> <<>>, path |-> NoPath] : o \in BOOLEAN}

\* syncOnce: the for loop up to the call of writeJobToVault.
syncOnceLoop(r) ==
  IF r.idx > Len(r.items)
  THEN [r EXCEPT !.pc = "done", !.result = r.out]
  ELSE LET it == r.items[r.idx]
       IN IF ContentMissing(it) THEN Throw(r, "content")
          ELSE [r EXCEPT !.pc = "write",
                         !.calls = Append(@, Ev("writeJobToVault", it, NoPath))]

syncOnce(r, ans) ==
  CASE r.pc = "fetch" ->
         LET q == [r EXCEPT !.calls = Append(@, Ev("select", 0, NoPath))]
         IN IF ~ans.ok THEN Throw(q, "fetch")
            ELSE syncOnceLoop([q EXCEPT !.items = ans.items, !.idx = 1])
    [] r.pc = "write" ->
         IF ~ans.ok THEN Throw(r, "write")
         ELSE [r EXCEPT !.writtenPath = ans.path, !.pc = "ack",
                        !.calls = Append(@, Ev("update", r.items[r.idx],
                                               ans.path))]
    [] OTHER ->
         IF ~ans.ok THEN Throw(r, "ack")
         ELSE syncOnceLoop([r EXCEPT !.out = Append(@, r.writtenPath),
                                     !.idx = @ + 1])

\* EntryFor with the conflict index of the path dropped.
EntryForBarePath(it, writtenPath) ==
  [path |-> Suffixed(writtenPath, 0), title |-> JobTitle(it), jobId |-> it]

\* entries.push({ timestamp, path: writtenPath, title, jobId: it.id })
EntryFor(it, writtenPath) ==
  [path |-> writtenPath, title |-> JobTitle(it), jobId |-> it]

\* syncOnceWithDetails: the for loop up to the call of writeJobToVault.
syncOnceWithDetailsLoop(r) ==
  IF r.idx > Len(r.items)
  THEN [r EXCEPT !.pc = "done",
                 !.result = [entries |-> r.out, jobsFound |-> r.jobsFound]]
  ELSE LET it == r.items[r.idx]
       IN IF ContentMissing(it) THEN Throw(r, "content")
          ELSE [r EXCEPT !.pc = "write",
                         !.calls = Append(@, Ev("writeJobToVault", it, NoPath))]

syncOnceWithDetails(r, ans) ==
  CASE r.pc = "fetch" ->
         LET q == [r EXCEPT !.calls = Append(@, Ev("select", 0, NoPath))]
         IN IF ~ans.ok THEN Throw(q, "fetch")
            ELSE syncOnceWithDetailsLoop(
                   [q EXCEPT !.items = ans.items, !.idx = 1,
                             !.jobsFound = Len(ans.items)])
    [] r.pc = "write" ->
         IF ~ans.ok THEN Throw(r, "write")
         ELSE [r EXCEPT !.writtenPath = ans.path, !.pc = "ack",
                        !.calls = Append(@, Ev("update", r.items[r.idx],
                                               ans.path))]
    [] OTHER ->
         IF ~ans.ok THEN Throw(r, "ack")
         ELSE syncOnceWithDetailsLoop(
                [r EXCEPT !.out = Append(@, EntryFor(r.items[r.idx],
                                                     r.writtenPath)),
                          !.idx = @ + 1])

\* The two methods start in the same state of the backend: some jobs are
\* ready, some delivered, some without content.
InitPair ==
  /\ hasContent \in [JobIds -> BOOLEAN]
  /\ routeRow = [id \in RouteIds |-> NoRow]
  /\ jobStatus \in [JobIds -> {"transcribed", "delivered"}]
  /\ jobDest = [j \in JobIds |-> NoPath]
  /\ routes = routeRow
  /\ saved = routes
  /\ folders = {}
  /\ files = [p \in {} |-> <<>>]
  /\ isSyncing = FALSE
  /\ tasks = [k \in DirectKinds |-> PairStart(k)]
  /\ faults = 0
  /\ sinceCooldown = 0
  /\ sinceTrigger = Unobserved
  /\ Polling
  /\ noteWrites = [j \in JobIds |-> 0]
  /\ transitions = [j \in JobIds |-> 0]

\* The call both methods are suspended at answers, the same to both.
PairStep ==
  /\ tasks["syncOnce"].pc = tasks["syncOnceWithDetails"].pc
  /\ tasks["syncOnce"].pc # "done"
  /\ \E ans \in Answers(tasks["syncOnce"].pc) :
       tasks' = [k \in DirectKinds |->
                   IF k = "syncOnce" THEN syncOnce(tasks[k], ans)
                   ELSE syncOnceWithDetails(tasks[k], ans)]
  /\ UNCHANGED <<backend, vault, cache, isSyncing, faults, sinceCooldown, sinceTrigger, plugin>>

SpecPair == InitPair /\ [][PairStep]_vars

\* The plugin in a vault whose attachment folder already holds originals
\* under the name the jobs' original has, delivering through a route that
\* includes the original.
UserAttachments ==
  { Suffixed(Path(AttachmentFolder, FileNameOf(OriginalObjectName)), i) :
      i \in 0..2 }

InitAttach ==
  /\ hasContent = [j \in JobIds |-> TRUE]
  /\ routeRow \in [RouteIds -> {row \in VaultRows : row.incl = "true"}]
  /\ jobStatus = [j \in JobIds |-> "transcribed"]
  /\ jobDest = [j \in JobIds |-> NoPath]
  /\ \E fresh \in BOOLEAN :
       routes = [id \in RouteIds |-> IF fresh THEN routeRow[id] ELSE NoRow]
  /\ saved = routes
  /\ \E S \in SUBSET UserAttachments :
       /\ files = [p \in S |-> UserNote]
       /\ folders = IF S = {} THEN {} ELSE Prefixes(AttachmentFolder)
  /\ isSyncing = FALSE
  /\ tasks = [t \in TaskIds |-> IdleTask]
  /\ faults = 0
  /\ sinceCooldown = FOCUS_SYNC_COOLDOWN_MS
  /\ sinceTrigger = Unobserved
  /\ Polling
  /\ noteWrites = [j \in JobIds |-> 0]
  /\ transitions = [j \in JobIds |-> 0]

SpecAttach == InitAttach /\ [][NextVault]_vars

\* ensureFolder called on its own, again and again, in a vault that holds
\* some folders (with the folders above them).  The paths are written as
\* the caller writes them: "/Inbox" and "Inbox//sub" have an empty segment.
FolderPaths ==
  { <<"Inbox">>, <<"Inbox", "sub">>, <<"Inbox", "sub", "deep">>,
    <<"Flow State">>, <<"Flow State", "_attachments">>,
    <<"Notes">>, <<"Notes", "a">>,
    <<"", "Inbox">>, <<"Inbox", "", "sub">>, <<"Notes", "a", "">> }

InitFolder ==
  /\ hasContent = [j \in JobIds |-> TRUE]
  /\ routeRow = [id \in RouteIds |-> NoRow]
  /\ jobStatus = [j \in JobIds |-> "transcribed"]
  /\ jobDest = [j \in JobIds |-> NoPath]
  /\ routes = routeRow
  /\ saved = routes
  /\ folders \in SUBSET { Parts(p) : p \in FolderPaths }
  /\ \A f \in folders : Prefixes(f) \subseteq folders
  /\ files = [p \in {} |-> <<>>]
  /\ isSyncing = FALSE
  /\ tasks = [path |-> <<>>, before |-> folders, again |-> folders]
  /\ faults = 0
  /\ sinceCooldown = 0
  /\ sinceTrigger = Unobserved
  /\ Polling
  /\ noteWrites = [j \in JobIds |-> 0]
  /\ transitions = [j \in JobIds |-> 0]

\* await ensureFolder(app, path); the record keeps the path, the folders
\* before the call and the folders a second call on the path would leave.
EnsureFolderCall ==
  /\ \E path \in FolderPaths :
       /\ folders' = ensureFolder(path, folders)
       /\ tasks' = [path |-> path, before |-> folders,
                    again |-> ensureFolder(path, ensureFolder(path, folders))]
  /\ UNCHANGED <<backend, cache, files, noteWrites, isSyncing, faults,
                 sinceCooldown, sinceTrigger, plugin>>

SpecFolder == InitFolder /\ [][EnsureFolderCall]_vars

\* ---- the destination URL --------------------------------------------------
\* A string is the sequence of its characters.  The characters of a written
\* path: letters and digits, and characters a URL reserves.
MaxPathLen == 3

\* A-Z a-z 0-9 - _ . ! ~ * ' ( ) are left as they are by encodeURIComponent.
Unreserved == {"a", "2", "F"}

Escaped == {"/", " ", "&", "%", "="}

PathChars == Unreserved \cup Escaped

\* The two hexadecimal digits of the character's UTF-8 byte.
Code(c) ==
  CASE c = "/" -> <<"2", "F">>
    [] c = " " -> <<"2", "0">>
    [] c = "&" -> <<"2", "6">>
    [] c = "%" -> <<"2", "5">>
    [] c = "=" -> <<"3", "D">>

\* encodeURIComponent that escapes nothing.
encodeURIComponentNone(str) == str

\* encodeURIComponent(writtenPath)
RECURSIVE encodeURIComponent(_)
encodeURIComponent(str) ==
  IF str = <<>> THEN <<>>
  ELSE (IF Head(str) \in Unreserved THEN <<Head(str)>>
        ELSE <<"%">> \o Code(Head(str)))
       \o encodeURIComponent(Tail(str))

\* decodeURIComponent throws on a "%" that two hexadecimal digits of a
\* character do not follow.
URIError == <<"URIError">>

RECURSIVE decodeURIComponent(_)
decodeURIComponent(str) ==
  IF str = <<>> THEN <<>>
  ELSE LET escape == Head(str) = "%"
           known == /\ Len(str) >= 3
                    /\ \E c \in Escaped : Code(c) = SubSeq(str, 2, 3)
           rest == decodeURIComponent(
                     SubSeq(str, IF escape THEN 4 ELSE 2, Len(str)))
       IN IF escape /\ ~known THEN URIError
          ELSE IF rest = URIError THEN URIError
          ELSE IF escape
               THEN <<CHOOSE c \in Escaped : Code(c) = SubSeq(str, 2, 3)>>
                    \o rest
               ELSE <<Head(str)>> \o rest

\* `obsidian://open?file=${...}`
OpenFile ==
  <<"o", "b", "s", "i", "d", "i", "a", "n", ":", "/", "/",
    "o", "p", "e", "n", "?", "f", "i", "l", "e", "=">>

destinationUrl(writtenPath) == OpenFile \o encodeURIComponent(writtenPath)

\* [^&]+ at the head of str: the characters up to the first "&".
RECURSIVE UpToAmpersand(_)
UpToAmpersand(str) ==
  IF str = <<>> \/ Head(str) = "&" THEN <<>>
  ELSE <<Head(str)>> \o UpToAmpersand(Tail(str))

NoMatch == <<>>

\* url.match(/file=([^&]+)/): the group of the leftmost match, if any.
RECURSIVE MatchFile(_)
MatchFile(url) ==
  IF Len(url) < 6 THEN NoMatch
  ELSE IF SubSeq(url, 1, 5) = <<"f", "i", "l", "e", "=">> /\ url[6] # "&"
       THEN UpToAmpersand(SubSeq(url, 6, Len(url)))
       ELSE MatchFile(Tail(url))

\* while (filePath.startsWith("/")) filePath = filePath.slice(1)
RECURSIVE SliceLeadingSlashes(_)
SliceLeadingSlashes(str) ==
  IF str # <<>> /\ Head(str) = "/" THEN SliceLeadingSlashes(Tail(str))
  ELSE str

NothingOpened == <<"none">>

\* The fallback of the deep link on the row of a delivered job: the file
\* it opens; nothing without a match, or when decodeURIComponent throws.
filePathOf(url) ==
  LET match == MatchFile(url)
  IN IF match = NoMatch THEN NothingOpened
     ELSE IF decodeURIComponent(match) = URIError THEN NothingOpened
     ELSE SliceLeadingSlashes(decodeURIComponent(match))

RECURSIVE Strings(_)
Strings(n) ==
  IF n = 0 THEN {<<>>}
  ELSE LET shorter == Strings(n - 1)
       IN shorter \cup { Append(str, c) : str \in shorter, c \in PathChars }

\* A job has been written to writtenPath, a path of at least one
\* character; it is neither acknowledged nor opened yet.
InitUrl ==
  /\ hasContent = [j \in JobIds |-> TRUE]
  /\ routeRow = [id \in RouteIds |-> NoRow]
  /\ jobStatus = [j \in JobIds |-> "transcribed"]
  /\ jobDest = [j \in JobIds |-> NoPath]
  /\ routes = routeRow
  /\ saved = routes
  /\ folders = {}
  /\ files = [p \in {} |-> <<>>]
  /\ isSyncing = FALSE
  /\ \E writtenPath \in Strings(MaxPathLen) \ {<<>>} :
       tasks = [pc |-> "ack", writtenPath |-> writtenPath,
                destination_url |-> <<>>, filePath |-> NothingOpened]
  /\ faults = 0
  /\ sinceCooldown = 0
  /\ sinceTrigger = Unobserved
  /\ Polling
  /\ noteWrites = [j \in JobIds |-> 0]
  /\ transitions = [j \in JobIds |-> 0]

\* The acknowledgement records the destination URL of the first job.
UrlAck ==
  /\ tasks.pc = "ack"
  /\ tasks' = [tasks EXCEPT !.pc = "delivered",
                            !.destination_url = destinationUrl(tasks.writtenPath)]
  /\ jobStatus' = [jobStatus EXCEPT ![1] = "delivered"]
  /\ UNCHANGED <<hasContent, routeRow, jobDest, transitions, vault, cache,
                 isSyncing, faults, sinceCooldown, sinceTrigger, plugin>>

\* A deep link for the job finds it delivered and opens its file.
UrlOpen ==
  /\ tasks.pc = "delivered"
  /\ jobStatus[1] = "delivered" /\ tasks.destination_url # <<>>
  /\ tasks' = [tasks EXCEPT !.pc = "opened",
                            !.filePath = filePathOf(tasks.destination_url)]
  /\ UNCHANGED <<backend, vault, cache, isSyncing, faults, sinceCooldown,
                 sinceTrigger, plugin>>

NextUrl == UrlAck \/ UrlOpen

SpecUrl == InitUrl /\ [][NextUrl]_vars

\* The plugin from its start with its clock and the history of the
\* triggers: jobs with content, a backend and a vault that do not fail.
InitFocus ==
  /\ Loaded
  /\ faults = MaxFaults
  /\ sinceCooldown = 0
  /\ sinceTrigger = FOCUS_SYNC_COOLDOWN_MS
  /\ \A j \in JobIds : hasContent[j]
  /\ \A id \in RouteIds :
       /\ routeRow[id] = [dest |-> <<"Inbox">>, append |-> FALSE, incl |-> "true"]
       /\ routes[id] \in {NoRow, routeRow[id]}

NextFocus ==
  \/ \E t \in TaskIds :
       \/ Timer(t)
       \/ Command(t)
       \/ Focus(t)
       \/ DeepLink(t)
       \/ DeepLinkPoll(t)
       \/ Step(t)
  \/ Tick

SpecFocus == InitFocus /\ [][NextFocus]_vars

\* The fairness of the event loop: every awaited call returns and its
\* continuation runs.
Fairness == \A t \in TaskIds : SF_vars(Step(t))

SpecFair == Spec /\ Fairness

\* ---- vocabulary of the properties ---------------------------------------
EntryPoints == {"syncNowAndGetPaths", "syncWithLogs"}

\* The awaits between the entry guard and the cleanup.
CyclePcs == {"getSession", "fetch", "fetchRoute", "saveSettings",
             "ensureFolder", "download", "resolve", "write", "ack"}

PastGuard(t) == tasks[t].entry \in EntryPoints /\ tasks[t].pc \in CyclePcs

InBatch(t, j) == \E i \in 1..Len(tasks[t].batch) : tasks[t].batch[i] = j

\* Position of job j in the batch of call t.
Pos(t, j) == CHOOSE i \in 1..Len(tasks[t].batch) : tasks[t].batch[i] = j

Events(t) == 1..Len(tasks[t].ev)

Did(t, k, j) == \E q \in Events(t) : tasks[t].ev[q].k = k /\ tasks[t].ev[q].j = j

\* The events of a delivery, from the route refresh to the acknowledgement.
DeliveryEvents == {"fetchRoute", "saveSettings", "ensureFolder", "download",
                   "write", "writeFailed", "ack", "ackFailed"}

EndsWith(s, e) ==
  /\ Len(e) <= Len(s)
  /\ SubSeq(s, Len(s) - Len(e) + 1, Len(s)) = e

\* ---- C1 -----------------------------------------------------------------
\* C1: when two cycles run concurrently and both fetched a job, the job's
\* content is written exactly once and the job makes exactly one
\* transition to delivered.  The counters only grow, so neither may ever
\* exceed one.
C1_ConcurrentCyclesWriteOnce ==
  \A j \in JobIds :
    (\E t, u \in TaskIds : t # u /\ InBatch(t, j) /\ InBatch(u, j))
      => noteWrites[j] <= 1 /\ transitions[j] <= 1

\* ---- C2 -----------------------------------------------------------------
\* C2: across any sequence of cycles, aborted ones included, no job's
\* content is written to the vault more than once.
C2_NeverWrittenTwice == \A j \in JobIds : noteWrites[j] <= 1

\* ---- C3 -----------------------------------------------------------------
\* C3: an entry point invoked while a cycle is in progress returns at once
\* with no entries, and has fetched, written and acknowledged nothing.
C3_BusyCallDoesNothing ==
  \A t \in TaskIds :
    (tasks[t].entry \in EntryPoints /\ tasks[t].busyAtCall)
      => /\ tasks[t].pc = "done"
         /\ tasks[t].outcome = "skipped"
         /\ tasks[t].returned = <<>>
         /\ tasks[t].ev = <<>>

C3_Witness ==
  \E t, u \in TaskIds :
    /\ tasks[t].entry = "syncWithLogs" /\ tasks[t].outcome = "skipped"
    /\ tasks[u].entry = "syncNowAndGetPaths" /\ tasks[u].pc = "write"

\* ---- C4 -----------------------------------------------------------------
\* C4: at most one call is between the entry guard and the cleanup,
\* whatever triggers made the calls.
C4_OneCycleAtATime ==
  /\ Cardinality({t \in TaskIds : PastGuard(t)}) <= 1
  /\ isSyncing <=> \E t \in TaskIds : PastGuard(t)

C4_Witness ==
  \E t, u \in TaskIds :
    /\ tasks[t].kind = "deeplink" /\ tasks[t].pc = "wait"
    /\ tasks[t].waitCount = MaxWait - 1
    /\ tasks[u].kind = "timer" /\ tasks[u].pc = "ack"

\* ---- C5 -----------------------------------------------------------------
\* C5: a cycle that sets isSyncing clears it in the end, however it ends,
\* and the flag is not left set once no cycle is past the guard.
C5_FlagCleared ==
  /\ [](isSyncing => \E t \in TaskIds : PastGuard(t))
  /\ (isSyncing ~> ~isSyncing)

C5_Witness ==
  \E t \in TaskIds :
    /\ tasks[t].entry \in EntryPoints
    /\ tasks[t].pc = "done" /\ tasks[t].err = "ack"
    /\ ~isSyncing

\* ---- C6 -----------------------------------------------------------------
\* C6: a cycle takes the jobs in the order of the fetch, oldest first, and
\* has the acknowledgement of a job before anything of the next job.
C6_InOrder ==
  \A t \in TaskIds :
    LET r == tasks[t] IN
    /\ \A a, b \in 1..Len(r.batch) : a < b => r.batch[a] < r.batch[b]
    /\ \A q \in Events(t) :
         r.ev[q].k \in DeliveryEvents =>
           /\ InBatch(t, r.ev[q].j)
           /\ \A i \in 1..(Pos(t, r.ev[q].j) - 1) :
                \E p \in 1..(q - 1) :
                  r.ev[p].k = "ack" /\ r.ev[p].j = r.batch[i]
           /\ \A p \in 1..(q - 1) :
                r.ev[p].k \in DeliveryEvents =>
                  Pos(t, r.ev[p].j) <= Pos(t, r.ev[q].j)

C6_Witness ==
  \E t \in TaskIds :
    /\ Len(tasks[t].batch) = 2
    /\ Did(t, "ack", tasks[t].batch[1])
    /\ Did(t, "write", tasks[t].batch[2])

\* ---- C7 -----------------------------------------------------------------
\* C7: a failed delivery or acknowledgement ends the cycle at that job
\* with an error: nothing of a later job has happened, and the jobs the
\* cycle acknowledged stay delivered.
C7_AbortStopsCycle ==
  \A t \in TaskIds :
    LET r == tasks[t] IN
    /\ (r.err # "none" \/ \E q \in Events(t) :
                             r.ev[q].k \in {"writeFailed", "ackFailed"})
         => /\ r.pc = "done" /\ r.outcome = "error" /\ r.err # "none"
            /\ \A q \in Events(t) :
                 r.ev[q].k \in DeliveryEvents => Pos(t, r.ev[q].j) <= r.idx
    /\ \A j \in JobIds : Did(t, "ack", j) => jobStatus[j] = "delivered"

C7_Witness ==
  \E t \in TaskIds :
    /\ tasks[t].err = "ack" /\ tasks[t].idx = 2
    /\ Len(tasks[t].batch) > tasks[t].idx - 1
    /\ Did(t, "ack", tasks[t].batch[1])
    /\ jobStatus[tasks[t].batch[1]] = "delivered"
    /\ jobStatus[tasks[t].batch[2]] = "transcribed"

\* ---- C8 -----------------------------------------------------------------
\* C8: the acknowledgement of a job is issued only right after the write
\* of its note in the same cycle; a delivery that failed has none.
C8_AckAfterWrite ==
  \A t \in TaskIds :
    LET r == tasks[t] IN
    /\ \A q \in Events(t) :
         r.ev[q].k \in {"ack", "ackFailed"} =>
           /\ q > 1
           /\ r.ev[q - 1].k = "write" /\ r.ev[q - 1].j = r.ev[q].j
    /\ r.pc = "ack" =>
         /\ r.ev # <<>>
         /\ Last(r.ev).k = "write" /\ Last(r.ev).j = r.batch[r.idx]
    /\ r.err \in {"route", "saveData", "include_original_file",
                  "ensureFolder", "write"} =>
         /\ ~Did(t, "ack", r.batch[r.idx])
         /\ ~Did(t, "ackFailed", r.batch[r.idx])

C8_Witness ==
  \E t \in TaskIds :
    /\ tasks[t].err = "write" /\ tasks[t].idx = 2
    /\ Did(t, "ack", tasks[t].batch[1])

\* ---- C9 -----------------------------------------------------------------
\* C9: a fetched job without content ends the cycle with an error before
\* any folder, file, attachment or acknowledgement of that job.
C9_MissingContentFailsFast ==
  \A t \in TaskIds :
    LET r == tasks[t] IN
    /\ \A q \in Events(t) : r.ev[q].k \in DeliveryEvents => hasContent[r.ev[q].j]
    /\ (r.idx <= Len(r.batch) /\ ~hasContent[r.batch[r.idx]])
         => r.pc = "done" /\ r.outcome = "error" /\ r.err = "content"

C9_Witness ==
  \E t \in TaskIds :
    /\ tasks[t].err = "content" /\ tasks[t].idx = 2
    /\ Did(t, "ack", tasks[t].batch[1])

\* ---- C10 ----------------------------------------------------------------
\* C10: when the attachment download fails, the error stays inside the
\* delivery: the note is written without an embedded reference and the
\* job is acknowledged by a cycle that returns normally.
C10_AttachmentFailureNotFatal ==
  \A t \in TaskIds :
    LET r == tasks[t] IN
    /\ r.err # "attachment"
    /\ \A q \in Events(t) :
         (r.ev[q].k = "download" /\ r.ev[q].x = "failed") =>
           LET j == r.ev[q].j IN
           /\ q = Len(r.ev) => r.pc \in {"resolve", "write"} /\ r.att = NoPath
           /\ \A p \in Events(t) :
                (r.ev[p].k = "write" /\ r.ev[p].j = j) => r.ev[p].x = "plain"
           /\ (r.pc = "ack" /\ r.batch[r.idx] = j) =>
                EndsWith(files[r.target], Compose(r.route, j, NoPath))
           /\ r.outcome = "ok" =>
                Did(t, "ack", j) /\ jobStatus[j] = "delivered"

C10_Witness ==
  \E t \in TaskIds :
    /\ tasks[t].outcome = "ok"
    /\ \E q \in Events(t) :
         /\ tasks[t].ev[q].k = "download" /\ tasks[t].ev[q].x = "failed"
         /\ Did(t, "ack", tasks[t].ev[q].j)

\* ---- vocabulary of the delivery properties ------------------------------
\* The awaits of writeJobToVault after the route has been resolved, and the
\* acknowledgement.
ResolvedPcs == {"ensureFolder", "download", "resolve", "write", "ack"}

\* The job call t is delivering.
Current(t) == tasks[t].batch[tasks[t].idx]

\* The positions of the events of kind k for job j in call t.
EventsOf(t, k, j) ==
  {q \in Events(t) : tasks[t].ev[q].k = k /\ tasks[t].ev[q].j = j}

\* The cache holds a row with a destination and an include-original flag.
CacheHit(id) ==
  /\ routes[id] # NoRow
  /\ routes[id].dest # <<>>
  /\ routes[id].incl # NULL

\* ---- C11 ----------------------------------------------------------------
\* C11: a delivery whose cached route is absent or incomplete fetches the
\* route exactly once, before any folder creation, download or write of
\* the job; once the delivery goes on, the cache entry is the fetched row
\* and the persisted settings hold it.
C11_RefreshFetchesOnce ==
  \A t \in TaskIds :
    LET r == tasks[t] IN
    /\ \A q \in Events(t) :
         r.ev[q].k = "fetchRoute" =>
           \A p \in 1..(q - 1) :
             r.ev[p].j = r.ev[q].j =>
               r.ev[p].k \notin {"fetchRoute", "ensureFolder", "download",
                                 "write", "writeFailed"}
    /\ r.pc \in ResolvedPcs =>
         LET id == JobRoute(Current(t)) IN
         /\ EventsOf(t, "fetchRoute", Current(t)) = {} => CacheHit(id)
         /\ r.refresh =>
              /\ Cardinality(EventsOf(t, "fetchRoute", Current(t))) = 1
              /\ routes[id] = routeRow[id]
              /\ r.route = routeRow[id]
              /\ saved[id] = routes[id]

C11_Witness ==
  \E t \in TaskIds :
    /\ tasks[t].pc = "ack" /\ tasks[t].refresh
    /\ Did(t, "fetchRoute", Current(t))
    /\ Did(t, "saveSettings", Current(t))
    /\ saved[JobRoute(Current(t))] = routeRow[JobRoute(Current(t))]

\* ---- C12 ----------------------------------------------------------------
\* C12: with a complete cached route the delivery fetches no route, and
\* neither the cache nor the persisted settings change: they change only
\* in a delivery that found the cache entry absent or incomplete.
C12_CacheHitNoFetch ==
  /\ [](\A t \in TaskIds :
          LET r == tasks[t] IN
          /\ r.pc = "fetchRoute" => ~CacheHit(JobRoute(Current(t)))
          /\ r.pc \in {"fetchRoute", "saveSettings"} => r.refresh
          /\ (r.pc \in ResolvedPcs /\ ~r.refresh) =>
               /\ CacheHit(JobRoute(Current(t)))
               /\ r.route = routes[JobRoute(Current(t))]
               /\ ~Did(t, "fetchRoute", Current(t))
               /\ ~Did(t, "saveSettings", Current(t)))
  /\ [][/\ routes' # routes =>
             \E t \in TaskIds : /\ tasks[t].pc = "fetchRoute"
                                /\ ~CacheHit(JobRoute(Current(t)))
        /\ saved' # saved =>
             \E t \in TaskIds : tasks[t].pc = "saveSettings" /\ tasks[t].refresh
       ]_vars

C12_Witness ==
  \E t \in TaskIds :
    /\ tasks[t].pc = "ack" /\ ~tasks[t].refresh
    /\ CacheHit(JobRoute(Current(t)))
    /\ saved = routes

\* ---- vocabulary of the vault properties ---------------------------------
IsPrefix(a, b) == Len(a) <= Len(b) /\ SubSeq(b, 1, Len(a)) = a

\* Every file of the vault is still there, with the content it had.
FilesKept ==
  \A p \in DOMAIN files : p \in DOMAIN files' /\ files'[p] = files[p]

\* Every file of the vault is still there, and begins with what it held.
FilesExtended ==
  \A p \in DOMAIN files : p \in DOMAIN files' /\ IsPrefix(files[p], files'[p])

NewFileMode == \A id \in RouteIds : ~routeRow[id].append
AppendMode == \A id \in RouteIds : routeRow[id].append

HelloNote(i) == [dir |-> <<"Inbox">>, base |-> "Hello", n |-> i, ext |-> ".md"]
LogNote == [dir |-> <<"Inbox">>, base |-> "log", n |-> 0, ext |-> ".md"]

\* ---- C13 ----------------------------------------------------------------
\* C13: in new-file mode the path written is the desired path when no file
\* is there, and otherwise the desired name with the smallest index from 1
\* on that names no file.
C13_SmallestFreeIndex ==
  \A t \in TaskIds :
    LET r == tasks[t] IN
    (r.pc = "write" /\ ~r.route.append) =>
      LET want == [dir |-> r.route.dest, base |-> "Hello", n |-> 0, ext |-> ".md"]
      IN /\ r.target \notin DOMAIN files
         /\ r.target = [want EXCEPT !.n = r.target.n]
         /\ want \notin DOMAIN files => r.target.n = 0
         /\ want \in DOMAIN files =>
              /\ r.target.n >= 1
              /\ \A k \in 1..(r.target.n - 1) :
                   [want EXCEPT !.n = k] \in DOMAIN files

C13_Witness ==
  \E t \in TaskIds :
    /\ tasks[t].pc = "ack" /\ tasks[t].idx = 2
    /\ HelloNote(0) \in DOMAIN files /\ files[HelloNote(0)] = UserNote
    /\ jobDest[tasks[t].batch[1]] = HelloNote(1)
    /\ tasks[t].target = HelloNote(2)

\* ---- C14 ----------------------------------------------------------------
\* C14: in new-file mode no step of a delivery removes a file or changes
\* the content of a file that exists.
C14_NewFileKeepsFiles == [][NewFileMode => FilesKept]_vars

C14_Witness ==
  /\ NewFileMode
  /\ HelloNote(0) \in DOMAIN files /\ files[HelloNote(0)] = UserNote
  /\ HelloNote(1) \in DOMAIN files /\ files[HelloNote(1)] = UserNote
  /\ HelloNote(2) \in DOMAIN files /\ files[HelloNote(2)] # UserNote
  /\ noteWrites[1] = 1

\* ---- C15 ----------------------------------------------------------------
\* C15 as stated: an append to a non-empty file without an attachment
\* leaves the old content, a separator, the heading "# <title>" with the
\* job's title as it is, a separator and the body.
C15_AppendExactTitle ==
  \A t \in TaskIds :
    LET r == tasks[t] IN
    (r.pc = "ack" /\ r.route.append /\ r.existed /\ r.existing # <<>>
       /\ r.att = NoPath) =>
      files[r.target] =
        r.existing \o <<SEP, Heading(JobTitle(Current(t))), SEP, Body(Current(t))>>

\* C15, amended: the heading is made of the job's title without the
\* characters that are no word character, white space or hyphen; here
\* "# Hello" for both titles.
C15_AppendExact ==
  \A t \in TaskIds :
    LET r == tasks[t] IN
    (r.pc = "ack" /\ r.route.append /\ r.existed /\ r.existing # <<>>
       /\ r.att = NoPath) =>
      files[r.target] =
        r.existing \o <<SEP, Heading("Hello"), SEP, Body(Current(t))>>

C15_Witness ==
  \E t \in TaskIds :
    /\ tasks[t].pc = "ack" /\ tasks[t].route.append /\ tasks[t].att = NoPath
    /\ IsPrefix(UserNote, tasks[t].existing)
    /\ JobTitle(Current(t)) = "Hello?"

\* ---- C16 ----------------------------------------------------------------
\* C16: in append mode every step keeps the content of every file as a
\* prefix of its new content, and the file ends with the entry of the job
\* just written.
C16_AppendKeepsPrefix ==
  /\ [](\A t \in TaskIds :
          (tasks[t].pc = "ack" /\ tasks[t].route.append) =>
            EndsWith(files[tasks[t].target],
                     Compose(tasks[t].route, Current(t), tasks[t].att)))
  /\ [][AppendMode => FilesExtended]_vars

C16_Witness ==
  /\ LogNote \in DOMAIN files
  /\ \E id \in RouteIds :
       /\ routeRow[id].append
       /\ files[LogNote] =
            UserNote \o <<SEP>> \o Compose(routeRow[id], 1, NoPath)
                     \o <<SEP>> \o Compose(routeRow[id], 2, NoPath)

\* ---- C17 ----------------------------------------------------------------
\* C17: an append-mode delivery writes and returns the configured file,
\* with ".md" added when the name lacks it, and never a name with a
\* conflict index, whether the file exists or not.
C17_AppendPathFixed ==
  \A t \in TaskIds :
    LET r == tasks[t]
        Configured(p) ==
          /\ p.n = 0
          /\ p.ext = ".md"
          /\ p.dir = Front(r.route.dest)
          /\ p.base = IF Last(r.route.dest) = "log.md" THEN "log"
                      ELSE Last(r.route.dest)
    IN (r.route.append /\ r.pc \in {"write", "ack", "done"}) =>
         /\ r.pc \in {"write", "ack"} => Configured(r.target)
         /\ \A i \in 1..Len(r.paths) : Configured(r.paths[i])
         /\ \A i \in 1..Len(r.returned) : Configured(r.returned[i])

C17_Witness ==
  \E t \in TaskIds :
    /\ tasks[t].route.append /\ tasks[t].existed
    /\ tasks[t].outcome = "ok" /\ Len(tasks[t].returned) = 2
    /\ tasks[t].returned[1] = LogNote

\* ---- C18 ----------------------------------------------------------------
\* C18: a deep-link sync that finds a cycle in flight polls the flag at
\* most MaxWait times, does nothing of a cycle while it waits, and is past
\* the entry guard only when no other call is.
C18_DeepLinkWaits ==
  \A t \in TaskIds :
    LET r == tasks[t] IN
    r.kind = "deeplink" =>
      /\ r.waitCount <= MaxWait
      /\ r.pc = "wait" => r.waitCount < MaxWait /\ r.ev = <<>> /\ ~r.held
      /\ PastGuard(t) => \A u \in TaskIds \ {t} : ~PastGuard(u)
      /\ r.waited = "timeout" =>
           r.pc = "done" /\ r.outcome = "skipped" /\ r.ev = <<>>

C18_Witness ==
  \E t \in TaskIds :
    /\ tasks[t].kind = "deeplink" /\ tasks[t].waited = "freed"
    /\ tasks[t].pc = "write"
    /\ ~tasks[t].busyAtCall

\* ---- C19 ----------------------------------------------------------------
\* C19: a focus event less than the cooldown after the plugin started or
\* after a deep-link sync command arrived starts no cycle: the call made
\* for it ends at once, having set no flag and fetched nothing.
C19_FocusInCooldownSkipped ==
  /\ [](\A t \in TaskIds :
          tasks[t].outcome = "cooldown" =>
            /\ tasks[t].kind = "focus" /\ tasks[t].pc = "done"
            /\ tasks[t].entry = "none" /\ tasks[t].ev = <<>>
            /\ ~tasks[t].held /\ tasks[t].notice = "none")
  /\ [][\A t \in TaskIds :
          (tasks[t].kind # "focus" /\ tasks'[t].kind = "focus"
             /\ sinceCooldown < FOCUS_SYNC_COOLDOWN_MS) =>
            /\ tasks'[t].outcome = "cooldown"
            /\ isSyncing' = isSyncing
       ]_vars

C19_Witness ==
  \E t, u \in TaskIds :
    /\ tasks[t].kind = "focus" /\ tasks[t].outcome = "cooldown"
    /\ tasks[u].kind = "deeplink" /\ tasks[u].pc = "write"
    /\ sinceCooldown = 2 * TickMs
    /\ isSyncing

\* ---- C20 ----------------------------------------------------------------
\* C20: a cycle started by the timer or by a focus event that fails shows
\* no notice; a cycle started by the command that fails shows one.
C20_SilentFailureShowsNothing ==
  \A t \in TaskIds :
    tasks[t].outcome = "error" =>
      /\ tasks[t].kind \in {"timer", "focus"} => tasks[t].notice = "none"
      /\ tasks[t].kind = "command" => tasks[t].notice = "error"

\* C21: once a job is delivered, no acknowledgement of any cycle changes its
\* status or its recorded destination; an acknowledgement that finds the
\* job no longer transcribed is not an error: the cycle counts the path as
\* written and goes on.
C21_AckOnlyIfTranscribed ==
  [][\A j \in JobIds :
       /\ jobStatus[j] = "delivered" =>
            jobStatus'[j] = "delivered" /\ jobDest'[j] = jobDest[j]
       /\ \A t \in TaskIds :
            (/\ tasks[t].pc = "ack"
             /\ tasks[t].batch[tasks[t].idx] = j
             /\ jobStatus[j] = "delivered"
             /\ Len(tasks'[t].ev) = Len(tasks[t].ev) + 1
             /\ Last(tasks'[t].ev).k = "ack")
            => /\ Last(tasks'[t].ev).x = "noop"
               /\ tasks'[t].err = "none"
               /\ tasks'[t].paths = Append(tasks[t].paths, tasks[t].target)]_vars

\* A cycle has just acknowledged a job that another cycle had delivered to
\* a different path; the recorded destination is the other cycle's.
C21_Witness ==
  \E t \in TaskIds :
    /\ tasks[t].ev # <<>>
    /\ Last(tasks[t].ev).k = "ack"
    /\ Last(tasks[t].ev).x = "noop"
    /\ jobStatus[Last(tasks[t].ev).j] = "delivered"
    /\ jobDest[Last(tasks[t].ev).j] # Last(tasks[t].paths)

\* C22: a failed job fetch or a failed acknowledgement ends the cycle: the
\* failure is the last thing the cycle does and it changes nothing in the
\* backend, so the job is still transcribed; the next fetch that succeeds
\* returns every job that is still transcribed, the job whose
\* acknowledgement failed first, and its delivery starts anew.
C22_FailureLeavesJobReady ==
  /\ [](\A t \in TaskIds : \A q \in DOMAIN tasks[t].ev :
          LET e == tasks[t].ev[q]
          IN /\ e.k = "ackFailed" =>
                  /\ q = Len(tasks[t].ev)
                  /\ tasks[t].pc = "done" /\ tasks[t].err = "ack"
                  /\ jobStatus[e.j] = "transcribed"
             /\ (e.k = "fetch" /\ tasks[t].err = "fetch") =>
                  /\ q = Len(tasks[t].ev)
                  /\ tasks[t].pc = "done")
  /\ [][\A t \in TaskIds :
          /\ (tasks[t].pc \in {"fetch", "ack"} /\ tasks'[t].err \in {"fetch", "ack"})
               => UNCHANGED <<backend, vault>>
          /\ (tasks[t].pc = "fetch" /\ tasks'[t].err # "fetch"
               /\ tasks'[t].pc # "fetch") =>
               /\ \A j \in JobIds :
                    jobStatus[j] = "transcribed" =>
                      \E i \in DOMAIN tasks'[t].batch : tasks'[t].batch[i] = j
               /\ \A j \in JobIds :
                    (jobStatus[j] = "transcribed" /\ noteWrites[j] > 0) =>
                      /\ tasks'[t].batch[1] = j
                      /\ tasks'[t].idx = 1
                      /\ tasks'[t].pc \in {"fetchRoute", "ensureFolder", "done"}
                      /\ tasks'[t].pc = "done" =>
                           tasks'[t].err = "include_original_file"]_vars

\* A cycle delivers anew a job that an earlier cycle wrote and then failed
\* to acknowledge.
C22_Witness ==
  \E t \in TaskIds :
    /\ tasks[t].pc \in {"fetchRoute", "ensureFolder"}
    /\ tasks[t].idx = 1
    /\ noteWrites[tasks[t].batch[1]] > 0
    /\ jobStatus[tasks[t].batch[1]] = "transcribed"
    /\ Len(tasks[t].ev) = 1

\* C23: a deep link whose sync reported entries opens the path of the entry
\* of the target job when there is one, and the path of the last entry
\* when no target was given or no entry is the target's.
C23_OpensTargetOrLast ==
  \A t \in TaskIds :
    LET r == tasks[t]
        n == Len(r.returned)
    IN (r.kind = "deeplink" /\ r.pc = "done" /\ n > 0) =>
         /\ \A i \in 1..n : r.batch[i] = r.job => r.opened = r.returned[i]
         /\ (r.job = NoJob \/ \A i \in 1..n : r.batch[i] # r.job) =>
              r.opened = r.returned[n]

\* A deep link that named the first of the two jobs its sync delivered
\* has opened that job's note, which is not the last one written.
C23_Witness ==
  \E t \in TaskIds :
    /\ tasks[t].kind = "deeplink" /\ tasks[t].pc = "done"
    /\ Len(tasks[t].returned) = 2
    /\ tasks[t].job = tasks[t].batch[1]
    /\ tasks[t].opened = tasks[t].returned[1]
    /\ tasks[t].returned[1] # tasks[t].returned[2]

\* C24: a deep link whose sync reported no entries reads the row of its
\* target job and writes nothing: when the job was delivered before the
\* handler's own sync, that sync has neither written nor acknowledged it,
\* and the handler opens the file the row records.
C24_OpensRecordedDestination ==
  /\ [](\A t \in TaskIds :
          tasks[t].pc = "lookup" =>
            /\ tasks[t].kind = "deeplink" /\ tasks[t].job # NoJob
            /\ tasks[t].returned = <<>> /\ tasks[t].opened = NoPath
            /\ ~tasks[t].held
            /\ ~InBatch(t, tasks[t].job) =>
                 /\ ~Did(t, "write", tasks[t].job)
                 /\ ~Did(t, "ack", tasks[t].job))
  /\ [][\A t \in TaskIds :
          (tasks[t].pc = "lookup" /\ tasks'[t].pc = "done") =>
            /\ UNCHANGED <<backend, vault, cache, isSyncing>>
            /\ tasks'[t].opened \in {NoPath, jobDest[tasks[t].job]}
            /\ (jobStatus[tasks[t].job] = "delivered" /\ faults' = faults) =>
                 /\ tasks'[t].opened = jobDest[tasks[t].job]
                 /\ tasks'[t].opened \in DOMAIN files
            /\ jobStatus[tasks[t].job] # "delivered" =>
                 tasks'[t].opened = NoPath]_vars

\* A deep link named a job that an earlier cycle had delivered; its own
\* sync fetched nothing, and it has opened the job's note.
C24_Witness ==
  \E t \in TaskIds :
    /\ tasks[t].kind = "deeplink" /\ tasks[t].pc = "done"
    /\ tasks[t].job # NoJob
    /\ tasks[t].outcome = "ok" /\ tasks[t].batch = <<>>
    /\ noteWrites[tasks[t].job] = 1
    /\ tasks[t].opened = jobDest[tasks[t].job]
    /\ tasks[t].opened \in DOMAIN files

\* C25: from the same state and with the same answers to their calls,
\* syncOnce and syncOnceWithDetails make the same calls in the same order
\* (the query, writeJobToVault and the conditional update of each job), end
\* alike, and the paths the first returns are the paths of the entries the
\* second returns, whose jobsFound is the number of rows fetched.
C25_SameCycle ==
  LET a == tasks["syncOnce"]
      b == tasks["syncOnceWithDetails"]
  IN /\ a.calls = b.calls
     /\ a.pc = b.pc
     /\ a.err = b.err
     /\ a.items = b.items
     /\ Len(a.out) = Len(b.out)
     /\ \A i \in DOMAIN a.out :
          b.out[i].path = a.out[i] /\ b.out[i].jobId = a.items[i]
     /\ (a.pc = "done" /\ a.err = "none") =>
          /\ a.result = [i \in DOMAIN b.result.entries |->
                           b.result.entries[i].path]
          /\ b.result.jobsFound = Len(a.items)

\* Both methods have delivered two jobs, one of them to a path with a
\* conflict index.
C25_Witness ==
  /\ tasks["syncOnce"].pc = "done"
  /\ tasks["syncOnceWithDetails"].pc = "done"
  /\ Len(tasks["syncOnce"].result) = 2
  /\ Len(tasks["syncOnceWithDetails"].result.entries) = 2
  /\ \E i \in 1..2 : tasks["syncOnce"].result[i].n = 1

\* C26: a cycle that returns normally reports one path per fetched job, in
\* the order of the fetch: the path its note was written to, which the
\* backend records; and it has written each job once and issued one
\* update to delivered for it.
C26_OnePathPerJob ==
  \A t \in TaskIds :
    LET r == tasks[t] IN
    (r.entry \in EntryPoints /\ r.pc = "done" /\ r.outcome = "ok") =>
      /\ Len(r.returned) = Len(r.batch)
      /\ \A i \in 1..Len(r.batch) :
           LET j == r.batch[i] IN
           /\ r.returned[i] \in DOMAIN files
           /\ jobStatus[j] = "delivered"
           /\ jobDest[j] = r.returned[i]
           /\ Cardinality(EventsOf(t, "write", j)) = 1
           /\ Cardinality(EventsOf(t, "ack", j)) = 1
           /\ EventsOf(t, "ackFailed", j) = {}
      /\ \A q \in Events(t) :
           r.ev[q].k \in {"write", "ack"} => InBatch(t, r.ev[q].j)

\* A cycle has returned the two different paths of the two jobs it
\* fetched.
C26_Witness ==
  \E t \in TaskIds :
    /\ tasks[t].entry \in EntryPoints
    /\ tasks[t].pc = "done" /\ tasks[t].outcome = "ok"
    /\ Len(tasks[t].batch) = 2
    /\ Len(tasks[t].returned) = 2
    /\ tasks[t].returned[1] # tasks[t].returned[2]

\* C27: when the route of a job has to be fetched and the fetch fails or
\* finds no row, the delivery fails with an error: the cycle ends there,
\* no folder, file or attachment has been created for the job, the job is
\* not acknowledged and the route cache is as it was.
C27_RouteNotFoundFails ==
  /\ [](\A t \in TaskIds :
          LET r == tasks[t] IN
          r.err = "route" =>
            /\ r.pc = "done" /\ r.outcome = "error" /\ r.returned = <<>>
            /\ Last(r.ev).k = "fetchRoute" /\ Last(r.ev).j = Current(t)
            /\ \A k \in {"saveSettings", "ensureFolder", "download", "write",
                          "writeFailed", "ack", "ackFailed"} :
                 ~Did(t, k, Current(t)))
  /\ [][\A t \in TaskIds :
          /\ (tasks[t].pc = "fetchRoute"
               /\ tasks'[t].pc # "fetchRoute"
               /\ (routeRow[JobRoute(Current(t))] = NoRow \/ faults' # faults))
              => tasks'[t].err = "route"
          /\ (tasks[t].err = "none" /\ tasks'[t].err = "route")
              => /\ tasks[t].pc = "fetchRoute"
                 /\ needsRefresh(routes[JobRoute(Current(t))])
                 /\ UNCHANGED <<backend, vault, cache>>]_vars

\* A job could not be delivered because the backend has no row for its
\* route, while the cache holds none either; the job is still transcribed.
C27_Witness ==
  \E t \in TaskIds :
    /\ tasks[t].err = "route"
    /\ routeRow[JobRoute(Current(t))] = NoRow
    /\ routes[JobRoute(Current(t))] = NoRow
    /\ faults = 0
    /\ jobStatus[Current(t)] = "transcribed"

\* C28: when the route's include-original flag is null after the refresh,
\* the delivery fails with an error before any folder creation, download
\* or write of the job, and the job is not acknowledged: a delivery goes
\* past the check only with a flag that is set.
C28_NullFlagFails ==
  /\ [](\A t \in TaskIds :
          LET r == tasks[t] IN
          /\ r.pc \in ResolvedPcs => r.route.incl # NULL
          /\ r.err = "include_original_file" =>
               /\ r.pc = "done" /\ r.outcome = "error" /\ r.returned = <<>>
               /\ r.route.incl = NULL
               /\ Did(t, "fetchRoute", Current(t))
               /\ \A k \in {"ensureFolder", "download", "write",
                             "writeFailed", "ack", "ackFailed"} :
                    ~Did(t, k, Current(t)))
  /\ [][\A t \in TaskIds :
          (tasks[t].err = "none" /\ tasks'[t].err = "include_original_file")
            => /\ tasks[t].pc = "saveSettings"
               /\ routeRow[JobRoute(Current(t))].incl = NULL
               /\ UNCHANGED <<backend, vault>>]_vars

\* A delivery has failed on the null flag of the row it fetched; the job
\* is still transcribed and the vault holds no folder.
C28_Witness ==
  \E t \in TaskIds :
    /\ tasks[t].err = "include_original_file"
    /\ tasks[t].idx = 1
    /\ jobStatus[Current(t)] = "transcribed"
    /\ folders = {}
    /\ routes[JobRoute(Current(t))].incl = NULL

\* C29: an attachment a delivery has saved lies in the folder that holds
\* the delivery: the destination folder in new-file mode, the folder of
\* the destination file in append mode.
C29_AttachmentInHoldingFolder ==
  \A t \in TaskIds :
    tasks[t].att # NoPath => tasks[t].att.dir = ContainerOf(tasks[t].route)

C31_AttachmentNeverOverwrites ==
  [][\A t \in TaskIds :
       (tasks[t].pc = "download" /\ tasks'[t].att # NoPath) =>
         LET desired == Path(<<"Flow State", "_attachments">>, "z.pdf")
             got == tasks'[t].att
         IN /\ got \notin DOMAIN files
            /\ got \in DOMAIN files'
            /\ FilesKept
            /\ Suffixed(got, 0) = desired
            /\ desired \notin DOMAIN files => got = desired
            /\ desired \in DOMAIN files =>
                 /\ got.n >= 1
                 /\ \A i \in 1..(got.n - 1) :
                      Suffixed(desired, i) \in DOMAIN files]_vars

\* With "z.pdf" and "z 2.pdf" in the attachment folder from the start, an
\* original has been saved as "z 1.pdf", and the two kept their content.
C31_Witness ==
  LET z(i) == Suffixed(Path(<<"Flow State", "_attachments">>, "z.pdf"), i)
  IN /\ \E t \in TaskIds : tasks[t].att = z(1) /\ tasks[t].pc = "resolve"
     /\ {z(0), z(1), z(2)} \subseteq DOMAIN files
     /\ files[z(0)] = UserNote /\ files[z(2)] = UserNote
     /\ files[z(1)] # UserNote

C33_FocusAfterAnyTrigger ==
  [][\A t \in TaskIds :
       (tasks[t].kind = "idle" /\ tasks'[t].kind = "focus"
          /\ sinceTrigger < FOCUS_SYNC_COOLDOWN_MS)
         => tasks'[t].pc # "getSession"]_vars

\* C33: a focus event starts no sync within the cooldown after the plugin
\* loaded or a deep link cmd=sync arrived; a timer tick and a user command
\* do not restart the cooldown, so a focus event that follows them within
\* the cooldown time is held back only by the entry guard, while their
\* cycle is in progress, and starts a sync once that has ended.
C33_FocusAfterCooldownStart ==
  [][\A t \in TaskIds :
       /\ (tasks[t].kind = "idle" /\ tasks'[t].kind \in {"timer", "command"})
            => sinceCooldown' = sinceCooldown
       /\ (tasks[t].kind = "idle" /\ tasks'[t].kind = "deeplink")
            => sinceCooldown' = 0
       /\ (tasks[t].kind = "idle" /\ tasks'[t].kind = "focus"
              /\ sinceTrigger < FOCUS_SYNC_COOLDOWN_MS) =>
            /\ sinceCooldown < FOCUS_SYNC_COOLDOWN_MS
                 => tasks'[t].outcome = "cooldown"
            /\ (sinceCooldown >= FOCUS_SYNC_COOLDOWN_MS /\ isSyncing)
                 => tasks'[t].outcome = "skipped"
            /\ (sinceCooldown >= FOCUS_SYNC_COOLDOWN_MS /\ ~isSyncing)
                 => \/ tasks'[t].pc = "getSession" /\ isSyncing'
                    \/ tasks'[t].outcome = "notConfigured"]_vars

\* A focus event has started a sync less than the cooldown after the
\* timer started one, the plugin having loaded long before.
C33_Witness ==
  \E t \in TaskIds :
    /\ tasks[t].kind = "focus" /\ tasks[t].pc = "getSession"
    /\ sinceTrigger < FOCUS_SYNC_COOLDOWN_MS
    /\ sinceCooldown = FOCUS_SYNC_COOLDOWN_MS
    /\ \E j \in JobIds : jobStatus[j] = "delivered"

\* C34: a call that is skipped at the entry guard leaves isSyncing set: it
\* has not set the flag and runs no cleanup.  The flag falls only in a
\* step in which the call that set it ends.
C34_SkipLeavesFlag ==
  [][\A t \in TaskIds :
       /\ (tasks[t].outcome # "skipped" /\ tasks'[t].outcome = "skipped")
            => /\ isSyncing /\ isSyncing'
               /\ ~tasks[t].held /\ ~tasks'[t].held
               /\ \E u \in TaskIds \ {t} : tasks'[u].held /\ tasks'[u] = tasks[u]
       /\ (isSyncing /\ ~isSyncing') =>
            \E u \in TaskIds :
              /\ tasks[u].held /\ tasks'[u].pc = "done"
              /\ tasks'[u].outcome # "skipped"
              /\ \A v \in TaskIds \ {u} : ~tasks[v].held]_vars

\* The command was skipped while the timer's cycle awaits an
\* acknowledgement; the flag is still set.
C34_Witness ==
  \E t, u \in TaskIds :
    /\ tasks[t].kind = "command" /\ tasks[t].outcome = "skipped"
    /\ tasks[u].kind = "timer" /\ tasks[u].pc = "ack" /\ tasks[u].held
    /\ isSyncing

\* C35: when the deep-link handler's wait runs out while the cycle in
\* flight still holds the flag, the handler's syncWithLogs is refused at
\* the guard: it reports failure with no entries, the step touches neither
\* the backend nor the vault nor the route cache, the flag stays with the
\* cycle in flight, and the handler does nothing until its result is taken.
C35_ExpiredWaitRunsNoCycle ==
  [][\A t \in TaskIds :
       /\ (tasks[t].pc = "wait" /\ tasks'[t].pc # "wait" /\ isSyncing) =>
            /\ tasks[t].waitCount + 1 = MaxWait
            /\ tasks'[t].waited = "timeout"
            /\ tasks'[t].pc = "done" /\ tasks'[t].outcome = "skipped"
            /\ Entries(tasks'[t]) = <<>> /\ tasks'[t].opened = NoPath
            /\ tasks'[t].ev = <<>> /\ tasks'[t].batch = <<>>
            /\ ~tasks'[t].held /\ isSyncing'
            /\ UNCHANGED <<backend, vault, cache>>
       /\ tasks[t].waited = "timeout" =>
            /\ tasks[t].pc = "done"
            /\ tasks'[t] \in {tasks[t], IdleTask}]_vars

\* The wait ran out under a cycle that is still writing its note.
C35_Witness ==
  \E t, u \in TaskIds :
    /\ tasks[t].kind = "deeplink" /\ tasks[t].waited = "timeout"
    /\ tasks[t].outcome = "skipped"
    /\ tasks[u].held /\ tasks[u].pc = "write" /\ isSyncing

\* C36: a cycle that ends in an error returns no entries and no paths,
\* whatever it wrote and acknowledged before the error: in the step in
\* which it aborts the paths gathered so far are dropped, and a result
\* that lists a path comes from a cycle that ended without error.
C36_AbortReportsNothing ==
  /\ [](\A t \in TaskIds :
          tasks[t].pc = "done" =>
            /\ tasks[t].outcome = "error" => tasks[t].returned = <<>>
            /\ tasks[t].returned # <<>> =>
                 tasks[t].outcome = "ok" /\ tasks[t].returned = tasks[t].paths)
  /\ [][\A t \in TaskIds :
          (tasks[t].pc # "done" /\ tasks'[t].outcome = "error") =>
            /\ tasks'[t].returned = <<>> /\ Entries(tasks'[t]) = <<>>
            /\ \A i \in 1..Len(tasks'[t].paths) :
                 /\ \E q \in DOMAIN tasks'[t].ev :
                      /\ tasks'[t].ev[q].k = "ack"
                      /\ tasks'[t].ev[q].j = tasks'[t].batch[i]
                 /\ jobStatus'[tasks'[t].batch[i]] = "delivered"]_vars

\* The cycle aborted at its second job: the first is written and
\* delivered, and the caller is told of nothing.
C36_Witness ==
  \E t \in TaskIds :
    /\ tasks[t].pc = "done" /\ tasks[t].outcome = "error"
    /\ tasks[t].idx = 2 /\ Len(tasks[t].paths) = 1
    /\ tasks[t].returned = <<>>
    /\ Did(t, "write", tasks[t].batch[1]) /\ Did(t, "ack", tasks[t].batch[1])
    /\ jobStatus[tasks[t].batch[1]] = "delivered"
    /\ tasks[t].paths[1] \in DOMAIN files

\* A ready job whose delivery fails whenever it is tried: it has no
\* content, or its route has to be fetched and the backend has no row for
\* it or a row without the include-original flag.
FailsDelivery(j) ==
  /\ jobStatus[j] = "transcribed"
  /\ \/ ~hasContent[j]
     \/ /\ needsRefresh(routes[JobRoute(j)])
        /\ \/ routeRow[JobRoute(j)] = NoRow
           \/ routeRow[JobRoute(j)].incl = NULL

\* The oldest ready job.
OldestReady(j) ==
  jobStatus[j] = "transcribed" /\ \A i \in 1..(j - 1) : jobStatus[i] # "transcribed"

\* C37: while the oldest ready job fails delivery deterministically, it
\* goes on doing so, a cycle that fetched it ends in an error at it with
\* nothing written, and no step writes, acknowledges or changes the
\* status of a job created after it.
C37_FailingJobBlocksLater ==
  [][\A j \in JobIds :
       (OldestReady(j) /\ FailsDelivery(j)) =>
         /\ OldestReady(j)' /\ FailsDelivery(j)'
         /\ \A k \in JobIds :
              k >= j => /\ noteWrites'[k] = noteWrites[k]
                        /\ jobStatus'[k] = jobStatus[k]
                        /\ jobDest'[k] = jobDest[k]
         /\ files' = files
         /\ \A t \in TaskIds :
              (tasks[t].pc \in CyclePcs /\ tasks'[t].pc = "done"
               /\ tasks'[t].batch # <<>>) =>
                /\ tasks'[t].outcome = "error"
                /\ tasks'[t].batch[tasks'[t].idx] = j
                /\ tasks'[t].returned = <<>>
                /\ \A q \in DOMAIN tasks'[t].ev :
                     tasks'[t].ev[q].k \in {"write", "ack"} =>
                       tasks'[t].ev[q].j < j]_vars

\* The first job has no content; the second has, and its route is in the
\* cache: the cycle has aborted at the first job, and the second job is
\* still waiting.
C37_Witness ==
  \E t \in TaskIds :
    /\ ~hasContent[1] /\ hasContent[2]
    /\ ~needsRefresh(routes[JobRoute(2)])
    /\ tasks[t].pc = "done" /\ tasks[t].outcome = "error"
    /\ tasks[t].err = "content" /\ tasks[t].batch = <<1, 2>>
    /\ tasks[t].idx = 1 /\ tasks[t].returned = <<>>
    /\ OldestReady(1) /\ FailsDelivery(1)
    /\ jobStatus[2] = "transcribed" /\ noteWrites[2] = 0

\* C38: once onunload has run, no poll interval is scheduled.
C38_NoTimerAfterUnload == unloaded => pollIntervalId = NULL

\* C39: the file the deep-link fallback opens from the recorded
\* destination URL is the written path without its leading slashes.
C39_UrlRoundTrip ==
  tasks.pc = "opened" =>
    /\ tasks.destination_url = destinationUrl(tasks.writtenPath)
    /\ tasks.filePath = SliceLeadingSlashes(tasks.writtenPath)
    /\ tasks.filePath # NothingOpened

\* The path "a/&" is recorded as "a%2F%26" and opened as "a/&".
C39_Witness ==
  /\ tasks.pc = "opened"
  /\ tasks.writtenPath = <<"a", "/", "&">>
  /\ tasks.destination_url = OpenFile \o <<"a", "%", "2", "F", "%", "2", "6">>
  /\ tasks.filePath = <<"a", "/", "&">>

====
